---- MODULE Spec2Model ----
(***************************************************************************)
(* Streaming edge-to-machine assignment of the graph ingress:              *)
(*   - the edge decision oracles of ingress_edge_decision.hpp              *)
(*     (edge_to_proc_random / edge_to_proc_greedy / edge_to_proc_hdrf),    *)
(*   - the two front-ends distributed_oblivious_ingress::add_edge and      *)
(*     distributed_hdrf_ingress::add_edge, run by loader threads.          *)
(*                                                                         *)
(* Scores are doubles in the source.  They are modelled exactly, as        *)
(* integer numerators over one common denominator per call.  Two scores of *)
(* one call are either equal or differ by at least 1/denominator, far      *)
(* above double rounding error for the loads and degrees explored here, so *)
(* the comparison with the 1e-5 tolerance is exact too, except where the   *)
(* exact difference IS 1e-5: there the rounding of the doubles decides     *)
(* (see WithinTol).                                                        *)
(***************************************************************************)
EXTENDS Integers, Sequences, FiniteSets, TLC

VARIABLES
  numprocs,        \* dc.numprocs(): length of proc_num_edges, fixed at construction
  usehash,         \* ingress trait
  userecent,       \* ingress trait
  hseed,           \* selects the hash function graph_hash::hash_edge
  variant,         \* "oblivious" or "hdrf": which front-end was constructed
  nthreads,        \* number of loader threads calling add_edge
  dht,             \* replica table: vertex id -> set of machines (bitset)
  degree_dht,      \* true-degree table: vertex id -> counter (hdrf only)
  proc_num_edges,  \* per-machine edge counts
  obliv_lock,      \* simple_spinlock: 0 free, else the holding thread
  th,              \* per-thread position and locals inside add_edge
  sent,            \* transport: records handed to edge_exchange.send, in order
  decided,         \* history: decisions in the order the oracle made them
  ncalls,          \* history: add_edge calls started
  returned,        \* history: add_edge calls that returned
  aborted,         \* ASSERT_LT(best_proc, numprocs) failed
  cluster,         \* one ingress instance per machine, for finalize()
  cmap,            \* a cuckoo_map: data, stash, numel, drng
  mixed,           \* the values mix(a[seed] ^ hashfun(k)) of the keys hashed so far
  cmhist,          \* history of the cuckoo_map operations
  lfq,             \* an inplace_lf_queue2 with its enqueuers and its dequeuer
  sumap,           \* a synchronized_unordered_map with its callers
  tgroup           \* a thread_group with its threads and its owner

vars == <<numprocs, usehash, userecent, hseed, variant, nthreads, dht,
          degree_dht, proc_num_edges, obliv_lock, th, sent, decided, ncalls,
          returned, aborted, cluster, cmap, mixed, cmhist, lfq, sumap,
          tgroup>>

config == <<numprocs, usehash, userecent, hseed, variant, nthreads>>
cuckoo == <<cmap, mixed, cmhist>>
(* the objects of util/ and parallel/ checked on their own *)
parallel == <<lfq, sumap, tgroup>>
(* the members of the one ingress instance run by the loader threads *)
ingress == <<dht, degree_dht, proc_num_edges, obliv_lock, th, sent, decided,
             returned, aborted>>

(* ------------------------------ bounds -------------------------------- *)
MaxProcs == 2      \* numprocs ranges over 1..MaxProcs
MaxVertex == 1     \* vertex ids of a single loader are 0..MaxVertex
MaxCalls == 2      \* add_edge calls per run
MaxSeed == 0       \* hash functions 0..MaxSeed
NumThreads == 2    \* loader threads of the concurrent specifications
HubMachines == 4   \* machines of the repeated-vertex workload
HubEdges == 100    \* edges of the repeated-vertex workload after the first
InitLen == 2       \* slots of a new cuckoo_map; reserve(128) in the source
MaxKicks == 2      \* displacements tried by do_insert; 100 in the source
MaxOps == 4        \* operations applied to the cuckoo_map
MaxItems == 3      \* elements handed to enqueue of the inplace_lf_queue2
MaxCallers == 3    \* concurrent callers of the synchronized_unordered_map
MaxLaunch == 3     \* threads launched in a thread_group

(* ------------------------- program constants -------------------------- *)
InvalidProc == -1      \* procid_t best_proc = -1
Epsilon == 1           \* double epsilon = 1.0
TolInv == 100000       \* 1 / 1e-5, the tie tolerance
CuckooK == 2           \* template parameter CuckooK of the map checked here
MaxStash == 0          \* constructor argument stashsize of the map checked here
IllegalKey == -1       \* constructor argument illegalkey, as in dht(-1)
NoPos == -1            \* (index_type)(-1)

(* concurrent loaders contend for the entries of two vertices *)
ConcVertices == {0, 1}
Vertices == IF nthreads = 1 THEN 0..MaxVertex ELSE ConcVertices
Procs == 0..(numprocs - 1)
Threads == 1..nthreads

(* ------------------------------ helpers ------------------------------- *)
Min2(a, b) == IF a <= b THEN a ELSE b
Max2(a, b) == IF a >= b THEN a ELSE b
Abs(x) == IF x < 0 THEN -x ELSE x

SetMin(S) == CHOOSE x \in S : \A y \in S : x <= y
SetMax(S) == CHOOSE x \in S : \A y \in S : x >= y

(* mutant: the machines are collected in descending order *)
RECURSIVE DescSeq(_)
DescSeq(S) == IF S = {} THEN <<>>
              ELSE LET m == SetMax(S) IN <<m>> \o DescSeq(S \ {m})

RECURSIVE AscSeq(_)
AscSeq(S) == IF S = {} THEN <<>>
             ELSE LET m == SetMin(S) IN <<m>> \o AscSeq(S \ {m})

RECURSIVE SumOver(_, _)
SumOver(f, S) == IF S = {} THEN 0
                 ELSE LET x == CHOOSE y \in S : TRUE
                      IN f[x] + SumOver(f, S \ {x})

SumLoad(load) == SumOver(load, DOMAIN load)

(* graph_hash::hash_edge of a vertex pair.  A family of hash functions,    *)
(* none of them symmetric in the pair.                                     *)
hash_edge(e) == (hseed + 1) * e[1] + (hseed + 2) * e[2] + hseed

(* mutant: the pair is hashed as given, without std::min / std::max *)
edge_pair_unordered(source, target) == <<source, target>>

(* std::pair(std::min(source, target), std::max(source, target))           *)
edge_pair(source, target) == <<Min2(source, target), Max2(source, target)>>

(* cuckoo map operator[]: the entry of key, inserted with a default value  *)
(* when absent.  A table is a function from the present keys to values.    *)
Subscript(tbl, key, default) ==
  IF key \in DOMAIN tbl THEN tbl ELSE tbl @@ (key :> default)

(* mutant: the random choice is offset by the number of edges placed so far *)
edge_to_proc_random_offset(source, target, np) ==
  (hash_edge(edge_pair(source, target)) + SumLoad(proc_num_edges)) % np

(* --------------------------- decision oracle -------------------------- *)
edge_to_proc_random(source, target, np) ==
  hash_edge(edge_pair(source, target)) % np

(* mutant: the replica of the source on machine i is not counted *)
HasSrcHashOnly(i, source, src_degree, uh, np) == uh /\ source % np = i

(* mutant: the hash machine of the source is taken one machine further *)
HasSrcShifted(i, source, src_degree, uh, np) ==
  (i \in src_degree) \/ (uh /\ (source + 1) % np = i)

(* sd > 0, td > 0 of the scoring loops *)
HasSrc(i, source, src_degree, uh, np) ==
  (i \in src_degree) \/ (uh /\ source % np = i)
HasDst(i, target, dst_degree, uh, np) ==
  (i \in dst_degree) \/ (uh /\ target % np = i)

B2N(b) == IF b THEN 1 ELSE 0

minedges(load) == SetMin({load[i] : i \in DOMAIN load})
maxedges(load) == SetMax({load[i] : i \in DOMAIN load})

(* mutant: bal is not normalised by the spread of the loads *)
BalDenUnit(load) == Epsilon

(* denominator of bal: epsilon + maxedges - minedges *)
BalDen(load) == Epsilon + maxedges(load) - minedges(load)

(* mutant: the balance term is left out of the greedy score *)
GreedyScoreNoBalance(i, source, target, src_degree, dst_degree, load, uh) ==
  LET np == Cardinality(DOMAIN load)
      sd == HasSrc(i, source, src_degree, uh, np)
      td == HasDst(i, target, dst_degree, uh, np)
  IN BalDen(load) * (B2N(sd) + B2N(td))

(* greedy proc_score[i] times BalDen(load) *)
GreedyScore(i, source, target, src_degree, dst_degree, load, uh) ==
  LET np == Cardinality(DOMAIN load)
      sd == HasSrc(i, source, src_degree, uh, np)
      td == HasDst(i, target, dst_degree, uh, np)
  IN (maxedges(load) - load[i]) + BalDen(load) * (B2N(sd) + B2N(td))

(* mutant: a replica counts 1 whatever the degrees, as in the greedy score *)
HdrfScoreUnweighted(i, source, target, src_degree, dst_degree, src_true_degree, dst_true_degree, load, uh) ==
  LET np == Cardinality(DOMAIN load)
      SUM == src_true_degree + dst_true_degree + 2
      sd == HasSrc(i, source, src_degree, uh, np)
      td == HasDst(i, target, dst_degree, uh, np)
  IN (maxedges(load) - load[i]) * SUM + BalDen(load) * SUM * (B2N(sd) + B2N(td))

(* mutant: the weights of the two endpoints are exchanged *)
HdrfScoreSwapped(i, source, target, src_degree, dst_degree, src_true_degree, dst_true_degree, load, uh) ==
  LET np == Cardinality(DOMAIN load)
      degree_u == src_true_degree + 1
      degree_v == dst_true_degree + 1
      SUM == degree_u + degree_v
      sd == HasSrc(i, source, src_degree, uh, np)
      td == HasDst(i, target, dst_degree, uh, np)
      new_sd == IF sd THEN 2 * SUM - degree_v ELSE 0
      new_td == IF td THEN 2 * SUM - degree_u ELSE 0
  IN (maxedges(load) - load[i]) * SUM + BalDen(load) * (new_sd + new_td)

(* hdrf proc_score[i] times BalDen(load) * SUM, SUM = degree_u + degree_v  *)
HdrfScore(i, source, target, src_degree, dst_degree, src_true_degree, dst_true_degree, load, uh) ==
  LET np == Cardinality(DOMAIN load)
      degree_u == src_true_degree + 1
      degree_v == dst_true_degree + 1
      SUM == degree_u + degree_v
      sd == HasSrc(i, source, src_degree, uh, np)
      td == HasDst(i, target, dst_degree, uh, np)
      new_sd == IF sd THEN 2 * SUM - degree_u ELSE 0   \* (1 + (1 - fu)) * SUM
      new_td == IF td THEN 2 * SUM - degree_v ELSE 0   \* (1 + (1 - fv)) * SUM
  IN (maxedges(load) - load[i]) * SUM + BalDen(load) * (new_sd + new_td)

(* mutant: the comparison with the tolerance is reversed *)
WithinTolReversed(num, maxnum, den) == Abs(num - maxnum) * TolInv > den

(* std::fabs(proc_score[i] - maxscore) < 1e-5, scores given as numerators  *)
(* over the denominator den.  An exact difference of 1e-5 arises here only *)
(* between a whole maxscore k and a score (k - 1) + 99999/100000.0, and    *)
(* the doubles give                                                        *)
(*   std::fabs(0.99999 - 1.0) = 9.99999999995449e-06     (below 1e-5)      *)
(*   std::fabs(1.99999 - 2.0) = 1.0000000000065512e-05   (not below 1e-5)  *)
(* so the comparison succeeds at that difference exactly when maxscore is  *)
(* 1.0 (maxnum = den).  With d = |num - maxnum|, d * 1e5 < den is written  *)
(* d <= (den - 1) / 1e5, which keeps the numbers small.                    *)
WithinTol(num, maxnum, den) ==
  \/ Abs(num - maxnum) <= (den - 1) \div TolInv
  \/ den % TolInv = 0 /\ Abs(num - maxnum) = den \div TolInv /\ maxnum = den

(* the loop that fills top_procs, in ascending machine order *)
TopProcs(score, den) ==
  LET maxscore == SetMax({score[i] : i \in DOMAIN score})
  IN AscSeq({i \in DOMAIN score : WithinTol(score[i], maxscore, den)})

(* mutant: the tie-break also consults a counter of the calls made so far *)
PickBestCounted(top_procs, source, target) ==
  IF Len(top_procs) = 0 THEN InvalidProc
  ELSE top_procs[((hash_edge(edge_pair(source, target)) + ncalls) % Len(top_procs)) + 1]

(* best_proc = top_procs[hash_edge(edge_pair) % top_procs.size()];         *)
(* with an empty top_procs best_proc keeps its initial value               *)
PickBest(top_procs, source, target) ==
  IF Len(top_procs) = 0 THEN InvalidProc
  ELSE top_procs[(hash_edge(edge_pair(source, target)) % Len(top_procs)) + 1]

GreedyTop(source, target, src_degree, dst_degree, load, uh) ==
  TopProcs([i \in DOMAIN load |->
              GreedyScore(i, source, target, src_degree, dst_degree, load, uh)],
           BalDen(load))

HdrfTop(source, target, src_degree, dst_degree, src_true_degree, dst_true_degree, load, uh) ==
  TopProcs([i \in DOMAIN load |->
              HdrfScore(i, source, target, src_degree, dst_degree,
                        src_true_degree, dst_true_degree, load, uh)],
           BalDen(load) * (src_true_degree + dst_true_degree + 2))

(* ASSERT_LT(best_proc, numprocs), best_proc an unsigned procid_t *)
AssertLt(best_proc, np) == best_proc >= 0 /\ best_proc < np

(* mutant: dst_degree.set_bit(best_proc) is missing *)
SetReplicaBitsSrcOnly(tbl, source, target, best_proc, ur) ==
  LET c1 == IF ur THEN [tbl EXCEPT ![source] = {}] ELSE tbl
      c2 == IF ur THEN [c1 EXCEPT ![target] = {}] ELSE c1
  IN [c2 EXCEPT ![source] = @ \cup {best_proc}]

(* mutant: with userecent the whole replica table is cleared *)
SetReplicaBitsClearAll(tbl, source, target, best_proc, ur) ==
  LET c == IF ur THEN [w \in DOMAIN tbl |-> {}] ELSE tbl
      s1 == [c EXCEPT ![source] = @ \cup {best_proc}]
  IN [s1 EXCEPT ![target] = @ \cup {best_proc}]

(* mutant: the bitset of the target is not cleared with userecent *)
SetReplicaBitsKeepDst(tbl, source, target, best_proc, ur) ==
  LET c1 == IF ur THEN [tbl EXCEPT ![source] = {}] ELSE tbl
      s1 == [c1 EXCEPT ![source] = @ \cup {best_proc}]
  IN [s1 EXCEPT ![target] = @ \cup {best_proc}]

(* if (userecent) { src.clear(); dst.clear(); } src.set_bit; dst.set_bit   *)
(* written through the two references, which are the same entry when       *)
(* source = target                                                         *)
SetReplicaBits(tbl, source, target, best_proc, ur) ==
  LET c1 == IF ur THEN [tbl EXCEPT ![source] = {}] ELSE tbl
      c2 == IF ur THEN [c1 EXCEPT ![target] = {}] ELSE c1
      s1 == [c2 EXCEPT ![source] = @ \cup {best_proc}]
  IN [s1 EXCEPT ![target] = @ \cup {best_proc}]

(* edge_to_proc_greedy as one call on the table entries of source and      *)
(* target (which exist).  proc is InvalidProc and nothing is written when  *)
(* the assertion fails.                                                    *)
edge_to_proc_greedy(source, target, tbl, load, uh, ur) ==
  LET top_procs == GreedyTop(source, target, tbl[source], tbl[target], load, uh)
      best_proc == PickBest(top_procs, source, target)
  IN IF ~AssertLt(best_proc, Cardinality(DOMAIN load))
     THEN [proc |-> InvalidProc, dht |-> tbl, load |-> load]
     ELSE [proc |-> best_proc,
           dht  |-> SetReplicaBits(tbl, source, target, best_proc, ur),
           load |-> [load EXCEPT ![best_proc] = @ + 1]]

(* edge_to_proc_hdrf as one call; ++src_true_degree and ++dst_true_degree  *)
(* go through the two references one after the other                       *)
edge_to_proc_hdrf(source, target, tbl, deg, load, uh, ur) ==
  LET top_procs == HdrfTop(source, target, tbl[source], tbl[target],
                           deg[source], deg[target], load, uh)
      best_proc == PickBest(top_procs, source, target)
      d1 == [deg EXCEPT ![source] = @ + 1]
  IN IF ~AssertLt(best_proc, Cardinality(DOMAIN load))
     THEN [proc |-> InvalidProc, dht |-> tbl, deg |-> deg, load |-> load]
     ELSE [proc |-> best_proc,
           dht  |-> SetReplicaBits(tbl, source, target, best_proc, ur),
           deg  |-> [d1 EXCEPT ![target] = @ + 1],
           load |-> [load EXCEPT ![best_proc] = @ + 1]]

(* ----------------------------- front-ends ----------------------------- *)
(* dht[source]; dht[target]; *)
EnsureBits(tbl, source, target) ==
  Subscript(Subscript(tbl, source, {}), target, {})
(* degree_dht[source]; degree_dht[target]; *)
EnsureDeg(tbl, source, target) ==
  Subscript(Subscript(tbl, source, 0), target, 0)

(* no queue, synchronized map or thread group has been constructed *)
NoParallel ==
  /\ lfq = <<>>
  /\ sumap = <<>>
  /\ tgroup = <<>>

(* no cuckoo_map has been constructed *)
NoCuckoo ==
  /\ cmap = [data |-> <<>>, stash |-> <<>>, numel |-> 0, drng |-> 0]
  /\ mixed = <<>>
  /\ cmhist = <<>>

IdleThread == [pc |-> "idle", source |-> 0, target |-> 0, edata |-> 0,
               best_proc |-> InvalidProc, reg |-> 0]

InitWith(varnts, n, procs, seeds) ==
  /\ numprocs \in procs
  /\ usehash \in BOOLEAN
  /\ userecent \in BOOLEAN
  /\ hseed \in seeds
  /\ variant \in varnts
  /\ nthreads = n
  /\ dht = <<>>
  /\ degree_dht = <<>>
  /\ proc_num_edges = [i \in 0..(numprocs - 1) |-> 0]
  /\ obliv_lock = 0
  /\ th = [t \in 1..n |-> IdleThread]
  /\ sent = <<>>
  /\ decided = <<>>
  /\ ncalls = 0
  /\ returned = 0
  /\ aborted = FALSE
  /\ cluster = <<>>
  /\ NoParallel
  /\ NoCuckoo

At(t, label) == ~aborted /\ th[t].pc = label
Goto(t, label) == th' = [th EXCEPT ![t].pc = label]

(* a loader thread calls add_edge(source, target, edata); the edge data is *)
(* the number of the call, so every record is distinguishable              *)
Call(t, source, target, first) ==
  /\ At(t, "idle")
  /\ ncalls < MaxCalls
  /\ ncalls' = ncalls + 1
  /\ th' = [th EXCEPT ![t] = [IdleThread EXCEPT !.pc = first,
                                !.source = source, !.target = target,
                                !.edata = ncalls + 1]]
  /\ UNCHANGED <<parallel, config, cluster, cuckoo, dht, degree_dht, proc_num_edges, obliv_lock, sent,
                 decided, returned, aborted>>

(* the entries of source and target, the ones passed to the oracle by      *)
(* reference                                                               *)
EntriesOf(tbl, t) == [w \in {th[t].source, th[t].target} |-> tbl[w]]

(* the oracle has chosen best_proc: ASSERT_LT, and the history of          *)
(* decisions, each with a copy of the tables and loads it was made from    *)
Decide(t, best_proc, next) ==
  IF AssertLt(best_proc, numprocs)
  THEN /\ th' = [th EXCEPT ![t].pc = next, ![t].best_proc = best_proc]
       /\ decided' = Append(decided, [source |-> th[t].source,
                                       target |-> th[t].target,
                                       edata |-> th[t].edata,
                                       proc |-> best_proc,
                                       before |->
                                         [dht |-> EntriesOf(EnsureBits(dht, th[t].source, th[t].target), t),
                                          deg |-> EntriesOf(EnsureDeg(degree_dht, th[t].source, th[t].target), t),
                                          load |-> proc_num_edges]])
       /\ UNCHANGED aborted
  ELSE /\ th' = [th EXCEPT ![t].pc = "aborted", ![t].best_proc = best_proc]
       /\ aborted' = TRUE
       /\ UNCHANGED decided

(* src_degree / dst_degree updates of the oracle through the references    *)
SetBits(t, next) ==
  /\ dht' = SetReplicaBits(dht, th[t].source, th[t].target, th[t].best_proc,
                           userecent)
  /\ Goto(t, next)
  /\ UNCHANGED <<parallel, config, cluster, cuckoo, degree_dht, proc_num_edges, obliv_lock, sent,
                 decided, ncalls, returned, aborted>>

(* ++proc_num_edges[best_proc]: the load of the counter ... *)
LoadRead(t, next) ==
  /\ th' = [th EXCEPT ![t].pc = next, ![t].reg = proc_num_edges[th[t].best_proc]]
  /\ UNCHANGED <<parallel, config, cluster, cuckoo, dht, degree_dht, proc_num_edges, obliv_lock, sent,
                 decided, ncalls, returned, aborted>>
(* mutant: the value read is stored back without the increment *)
LoadWriteNoIncrement(t, next) ==
  /\ proc_num_edges' = [proc_num_edges EXCEPT ![th[t].best_proc] = th[t].reg]
  /\ Goto(t, next)
  /\ UNCHANGED <<parallel, config, cluster, cuckoo, dht, degree_dht, obliv_lock, sent, decided, ncalls,
                 returned, aborted>>

(* ... and the store of the incremented value *)
LoadWrite(t, next) ==
  /\ proc_num_edges' = [proc_num_edges EXCEPT ![th[t].best_proc] = th[t].reg + 1]
  /\ Goto(t, next)
  /\ UNCHANGED <<parallel, config, cluster, cuckoo, dht, degree_dht, obliv_lock, sent, decided, ncalls,
                 returned, aborted>>

(* mutant: the record carries the canonical pair instead of the arguments *)
SendRecordCanonical(t) ==
  /\ sent' = Append(sent, [to |-> th[t].best_proc,
                           source |-> Min2(th[t].source, th[t].target),
                           target |-> Max2(th[t].source, th[t].target),
                           edata |-> th[t].edata])
  /\ returned' = returned + 1
  /\ Goto(t, "idle")
  /\ UNCHANGED <<parallel, config, cluster, cuckoo, dht, degree_dht, proc_num_edges, obliv_lock, decided,
                 ncalls, aborted>>

(* edge_exchange.send(owning_proc, edge_buffer_record(source, target, edata)) *)
(* and the return of add_edge                                              *)
SendRecord(t) ==
  /\ sent' = Append(sent, [to |-> th[t].best_proc, source |-> th[t].source,
                           target |-> th[t].target, edata |-> th[t].edata])
  /\ returned' = returned + 1
  /\ Goto(t, "idle")
  /\ UNCHANGED <<parallel, config, cluster, cuckoo, dht, degree_dht, proc_num_edges, obliv_lock, decided,
                 ncalls, aborted>>

(* ---------------- distributed_oblivious_ingress::add_edge -------------- *)
ObAddEdge(t, source, target) ==
  /\ variant = "oblivious"
  /\ Call(t, source, target, "lock")

(* mutant: the lock is taken without waiting for it to be free *)
ObLockNoWait(t) ==
  /\ At(t, "lock")
  /\ obliv_lock' = t
  /\ Goto(t, "ensure")
  /\ UNCHANGED <<parallel, config, cluster, cuckoo, dht, degree_dht, proc_num_edges, sent, decided,
                 ncalls, returned, aborted>>

(* obliv_lock.lock() *)
ObLock(t) ==
  /\ At(t, "lock")
  /\ obliv_lock = 0
  /\ obliv_lock' = t
  /\ Goto(t, "ensure")
  /\ UNCHANGED <<parallel, config, cluster, cuckoo, dht, degree_dht, proc_num_edges, sent, decided,
                 ncalls, returned, aborted>>

(* dht[source]; dht[target]; *)
ObEnsure(t) ==
  /\ At(t, "ensure") /\ variant = "oblivious"
  /\ dht' = EnsureBits(dht, th[t].source, th[t].target)
  /\ Goto(t, "score")
  /\ UNCHANGED <<parallel, config, cluster, cuckoo, degree_dht, proc_num_edges, obliv_lock, sent,
                 decided, ncalls, returned, aborted>>

(* edge_to_proc_greedy up to the assertion: the arguments dht[source],     *)
(* dht[target] and the scoring                                             *)
ObScore(t) ==
  /\ At(t, "score") /\ variant = "oblivious"
  /\ LET tbl == EnsureBits(dht, th[t].source, th[t].target)
         top_procs == GreedyTop(th[t].source, th[t].target, tbl[th[t].source],
                                tbl[th[t].target], proc_num_edges, usehash)
     IN /\ dht' = tbl
        /\ Decide(t, PickBest(top_procs, th[t].source, th[t].target), "setbits")
  /\ UNCHANGED <<parallel, config, cluster, cuckoo, degree_dht, proc_num_edges, obliv_lock, sent, ncalls,
                 returned>>

ObSetBits(t) == At(t, "setbits") /\ variant = "oblivious" /\ SetBits(t, "incload")
ObLoadRead(t) == At(t, "incload") /\ variant = "oblivious" /\ LoadRead(t, "incload_w")
ObLoadWrite(t) == At(t, "incload_w") /\ variant = "oblivious" /\ LoadWrite(t, "unlock")

(* mutant: the lock is not released before the send *)
ObUnlockMissing(t) ==
  /\ At(t, "unlock")
  /\ Goto(t, "send")
  /\ UNCHANGED <<parallel, config, cluster, cuckoo, dht, degree_dht, proc_num_edges, obliv_lock, sent,
                 decided, ncalls, returned, aborted>>

(* obliv_lock.unlock() *)
ObUnlock(t) ==
  /\ At(t, "unlock")
  /\ obliv_lock' = 0
  /\ Goto(t, "send")
  /\ UNCHANGED <<parallel, config, cluster, cuckoo, dht, degree_dht, proc_num_edges, sent, decided,
                 ncalls, returned, aborted>>

ObSend(t) == At(t, "send") /\ variant = "oblivious" /\ SendRecord(t)

NextObliv ==
  \/ \E t \in Threads, source, target \in Vertices : ObAddEdge(t, source, target)
  \/ \E t \in Threads : ObLock(t)
  \/ \E t \in Threads : ObEnsure(t)
  \/ \E t \in Threads : ObScore(t)
  \/ \E t \in Threads : ObSetBits(t)
  \/ \E t \in Threads : ObLoadRead(t)
  \/ \E t \in Threads : ObLoadWrite(t)
  \/ \E t \in Threads : ObUnlock(t)
  \/ \E t \in Threads : ObSend(t)

(* oblivious front-end, NumThreads loader threads *)
InitObliv == InitWith({"oblivious"}, NumThreads, {MaxProcs}, {0})
SpecObliv == InitObliv /\ [][NextObliv]_vars

(* ------------------ distributed_hdrf_ingress::add_edge ----------------- *)
(* no lock is taken: every step below may interleave with other threads    *)
HdAddEdge(t, source, target) ==
  /\ variant = "hdrf"
  /\ Call(t, source, target, "ensure")

(* dht[source]; dht[target]; degree_dht[source]; degree_dht[target]; *)
HdEnsure(t) ==
  /\ At(t, "ensure") /\ variant = "hdrf"
  /\ dht' = EnsureBits(dht, th[t].source, th[t].target)
  /\ degree_dht' = EnsureDeg(degree_dht, th[t].source, th[t].target)
  /\ Goto(t, "score")
  /\ UNCHANGED <<parallel, config, cluster, cuckoo, proc_num_edges, obliv_lock, sent, decided, ncalls,
                 returned, aborted>>

(* edge_to_proc_hdrf up to the assertion: the four reference arguments and *)
(* the scoring from the degrees, bits and loads read                       *)
HdScore(t) ==
  /\ At(t, "score") /\ variant = "hdrf"
  /\ LET tbl == EnsureBits(dht, th[t].source, th[t].target)
         deg == EnsureDeg(degree_dht, th[t].source, th[t].target)
         top_procs == HdrfTop(th[t].source, th[t].target, tbl[th[t].source],
                              tbl[th[t].target], deg[th[t].source],
                              deg[th[t].target], proc_num_edges, usehash)
     IN /\ dht' = tbl
        /\ degree_dht' = deg
        /\ Decide(t, PickBest(top_procs, th[t].source, th[t].target), "setbits")
  /\ UNCHANGED <<parallel, config, cluster, cuckoo, proc_num_edges, obliv_lock, sent, ncalls, returned>>

HdSetBits(t) == At(t, "setbits") /\ variant = "hdrf" /\ SetBits(t, "incload")
HdLoadRead(t) == At(t, "incload") /\ variant = "hdrf" /\ LoadRead(t, "incload_w")
HdLoadWrite(t) == At(t, "incload_w") /\ variant = "hdrf" /\ LoadWrite(t, "incsrc")

(* ++src_true_degree / ++dst_true_degree: load of the counter behind the  *)
(* reference, then store of the incremented value                          *)
DegRead(t, key, next) ==
  /\ th' = [th EXCEPT ![t].pc = next, ![t].reg = degree_dht[key]]
  /\ UNCHANGED <<parallel, config, cluster, cuckoo, dht, degree_dht, proc_num_edges, obliv_lock, sent,
                 decided, ncalls, returned, aborted>>
(* mutant: the counter of a vertex that already has edges is left as read *)
DegWriteOnce(t, key, next) ==
  /\ degree_dht' = [degree_dht EXCEPT ![key] = IF th[t].reg = 0 THEN 1 ELSE th[t].reg]
  /\ Goto(t, next)
  /\ UNCHANGED <<parallel, config, cluster, cuckoo, dht, proc_num_edges, obliv_lock, sent, decided,
                 ncalls, returned, aborted>>

DegWrite(t, key, next) ==
  /\ degree_dht' = [degree_dht EXCEPT ![key] = th[t].reg + 1]
  /\ Goto(t, next)
  /\ UNCHANGED <<parallel, config, cluster, cuckoo, dht, proc_num_edges, obliv_lock, sent, decided,
                 ncalls, returned, aborted>>

HdSrcRead(t) == At(t, "incsrc") /\ DegRead(t, th[t].source, "incsrc_w")
HdSrcWrite(t) == At(t, "incsrc_w") /\ DegWrite(t, th[t].source, "incdst")
HdDstRead(t) == At(t, "incdst") /\ DegRead(t, th[t].target, "incdst_w")
HdDstWrite(t) == At(t, "incdst_w") /\ DegWrite(t, th[t].target, "send")

HdSend(t) == At(t, "send") /\ variant = "hdrf" /\ SendRecord(t)

NextHdrf ==
  \/ \E t \in Threads, source, target \in Vertices : HdAddEdge(t, source, target)
  \/ \E t \in Threads : HdEnsure(t)
  \/ \E t \in Threads : HdScore(t)
  \/ \E t \in Threads : HdSetBits(t)
  \/ \E t \in Threads : HdLoadRead(t)
  \/ \E t \in Threads : HdLoadWrite(t)
  \/ \E t \in Threads : HdSrcRead(t)
  \/ \E t \in Threads : HdSrcWrite(t)
  \/ \E t \in Threads : HdDstRead(t)
  \/ \E t \in Threads : HdDstWrite(t)
  \/ \E t \in Threads : HdSend(t)

(* hdrf front-end, NumThreads loader threads *)
InitHdrf == InitWith({"hdrf"}, NumThreads, {MaxProcs}, {0})
SpecHdrf == InitHdrf /\ [][NextHdrf]_vars

(* ------------------- the repeated-vertex workload ---------------------- *)
(* the k-th edge of the stream, k = 0, 1, ...: (10, 7), then (10, t) with  *)
(* a target t never seen before                                            *)
HubStream(k) == IF k = 0 THEN <<10, 7>> ELSE <<10, 10 + k>>

(* the loader thread calls add_edge on the next edge of the stream *)
HubAddEdge(t) ==
  /\ variant = "hdrf"
  /\ At(t, "idle")
  /\ ncalls <= HubEdges
  /\ ncalls' = ncalls + 1
  /\ th' = [th EXCEPT ![t] = [IdleThread EXCEPT !.pc = "ensure",
                                !.source = HubStream(ncalls)[1],
                                !.target = HubStream(ncalls)[2],
                                !.edata = ncalls + 1]]
  /\ UNCHANGED <<parallel, config, cluster, cuckoo, dht, degree_dht, proc_num_edges, obliv_lock, sent,
                 decided, returned, aborted>>

NextHub ==
  \/ \E t \in Threads : HubAddEdge(t)
  \/ \E t \in Threads : HdEnsure(t)
  \/ \E t \in Threads : HdScore(t)
  \/ \E t \in Threads : HdSetBits(t)
  \/ \E t \in Threads : HdLoadRead(t)
  \/ \E t \in Threads : HdLoadWrite(t)
  \/ \E t \in Threads : HdSrcRead(t)
  \/ \E t \in Threads : HdSrcWrite(t)
  \/ \E t \in Threads : HdDstRead(t)
  \/ \E t \in Threads : HdDstWrite(t)
  \/ \E t \in Threads : HdSend(t)

(* a fresh hdrf front-end on HubMachines machines with the default flags,  *)
(* one loader thread, any hash function of the family                      *)
InitHub ==
  /\ InitWith({"hdrf"}, 1, {HubMachines}, 0..(HubMachines - 1))
  /\ ~usehash /\ ~userecent
SpecHub == InitHub /\ [][NextHub]_vars

(* ----------------------------- cuckoo_map ------------------------------ *)
(* A map value m is [data, stash, numel, drng] plus two history fields:    *)
(*   data   the slot array, data[i + 1] = <<key, value>> of slot i,        *)
(*   stash  the overflow unordered_map, as the sequence of its entries in  *)
(*          iteration order (taken to be the order of insertion),          *)
(*   numel  the element count, drng the state of the random generator,     *)
(*   lvl    how many calls of rehash() are running,                        *)
(*   trace  what has happened to which key: displaced, stashed, resized,   *)
(*          nested (a resize inside a running rehash).                     *)
(* mx gives, for every key hashed so far, the CuckooK values               *)
(* mix(a[seed] ^ hashfun(key)); the slot is that value modulo datalen.     *)
MapKeys == {0, 1, 2, 3}      \* the keys used; new keys appear in this order
HashValues == {1, 2}         \* values of mix(...) considered
MapValues == {1, 2}          \* values written through references
Seeds == 0..(CuckooK - 1)
HashRows == [1..CuckooK -> HashValues]

EmptySlot == <<IllegalKey, 0>>   \* (illegalkey, mapped_type())
datalen(m) == Len(m.data)

(* index_type s = mix(a[seed] ^ k); return s % datalen; *)
compute_hash(mx, m, k, seed) == mx[k][seed + 1] % datalen(m)

(* kranddist(drng): the next draw, in 0..CuckooK-1, and the generator step *)
kranddist(drng) == ((drng + 1) \div 2) % CuckooK
NextRng(drng) == (drng + 1) % (2 * CuckooK)

(* iterators: into the slot array (vec) or into the stash (position st;    *)
(* Len(stash) + 1 is stash.end())                                          *)
VecIter(idx) == [in_stash |-> FALSE, vec |-> idx, st |-> 0]
StashIter(pos) == [in_stash |-> TRUE, vec |-> 0, st |-> pos]
end(m) == StashIter(Len(m.stash) + 1)

(* stash.find(k) *)
StashFind(m, k) ==
  IF \E n \in 1..Len(m.stash) : m.stash[n][1] = k
  THEN CHOOSE n \in 1..Len(m.stash) : m.stash[n][1] = k
  ELSE Len(m.stash) + 1

(* the seeds whose slot holds key k, tried in ascending order *)
SeedsHolding(mx, m, k) ==
  {j \in Seeds : m.data[compute_hash(mx, m, k, j) + 1][1] = k}

find(mx, m, k) ==
  IF SeedsHolding(mx, m, k) # {}
  THEN VecIter(compute_hash(mx, m, k, SetMin(SeedsHolding(mx, m, k))))
  ELSE StashIter(StashFind(m, k))

count(mx, m, k) ==
  SeedsHolding(mx, m, k) # {} \/ StashFind(m, k) <= Len(m.stash)

(* operator* of an iterator that is not end() *)
Deref(m, it) == IF it.in_stash THEN m.stash[it.st] ELSE m.data[it.vec + 1]
(* the iterator points at an entry of the map *)
ValidIter(m, it) ==
  IF it.in_stash THEN it.st \in 1..Len(m.stash)
  ELSE it.vec \in 0..(datalen(m) - 1) /\ m.data[it.vec + 1][1] # IllegalKey

Note(m, what, k) == [m EXCEPT !.trace = @ \cup {<<what, k>>}]

RECURSIVE Walk(_, _, _, _, _)
RECURSIVE do_insert(_, _, _)
RECURSIVE insert(_, _, _)
RECURSIVE RehashData(_, _, _)
RECURSIVE RehashStash(_, _, _, _)
RECURSIVE rehash(_, _)
RECURSIVE reserve(_, _, _)

(* mutant: a displaced entry is carried on with a default value *)
WalkResetting(mx, m, v, insertpos, i) ==
  IF i >= MaxKicks
  THEN LET m1 == Note([m EXCEPT !.stash = Append(@, v)], "stashed", v[1])
       IN [m |-> m1,
           iter |-> IF insertpos = NoPos THEN StashIter(Len(m1.stash))
                    ELSE VecIter(insertpos)]
  ELSE LET free == {j \in Seeds :
                      m.data[compute_hash(mx, m, v[1], j) + 1][1] = IllegalKey}
           found == free # {}
           idx == IF found THEN compute_hash(mx, m, v[1], SetMin(free))
                  ELSE compute_hash(mx, m, v[1], kranddist(m.drng))
           m0 == IF found THEN m ELSE [m EXCEPT !.drng = NextRng(@)]
           ip == IF insertpos = NoPos THEN idx
                 ELSE IF insertpos = idx THEN NoPos ELSE insertpos
           tmp == <<m.data[idx + 1][1], 0>>
           m1 == [m0 EXCEPT !.data[idx + 1] = v]
       IN IF found \/ tmp[1] = IllegalKey
          THEN [m |-> m1, iter |-> VecIter(ip)]
          ELSE Walk(mx, Note(m1, "displaced", tmp[1]), tmp, ip, i + 1)

(* mutant: insertpos is not reverted when the new entry is bumped again *)
WalkForgetful(mx, m, v, insertpos, i) ==
  IF i >= MaxKicks
  THEN LET m1 == IF StashFind(m, v[1]) <= Len(m.stash) THEN m
                 ELSE Note([m EXCEPT !.stash = Append(@, v)], "stashed", v[1])
       IN [m |-> Note(Note(m1, "attempts", i), "gaveup", i),
           iter |-> IF insertpos = NoPos THEN StashIter(StashFind(m1, v[1]))
                    ELSE VecIter(insertpos)]
  ELSE LET free == {j \in Seeds :
                      m.data[compute_hash(mx, m, v[1], j) + 1][1] = IllegalKey}
           found == free # {}
           idx == IF found THEN compute_hash(mx, m, v[1], SetMin(free))
                  ELSE compute_hash(mx, m, v[1], kranddist(m.drng))
           m0 == IF found THEN m ELSE [m EXCEPT !.drng = NextRng(@)]
           ip == IF insertpos = NoPos THEN idx ELSE insertpos
           tmp == m.data[idx + 1]
           m1 == [m0 EXCEPT !.data[idx + 1] = v]
       IN IF found \/ tmp[1] = IllegalKey
          THEN [m |-> Note(m1, "attempts", i + 1), iter |-> VecIter(ip)]
          ELSE Walk(mx, Note(IF insertpos = idx THEN Note(m1, "bounced", tmp[1]) ELSE m1,
                             "displaced", tmp[1]), tmp, ip, i + 1)

(* mutant: the walk gives up after its first failed attempt *)
WalkOnce(mx, m, v, insertpos, i) ==
  IF i >= 1
  THEN LET m1 == IF StashFind(m, v[1]) <= Len(m.stash) THEN m
                 ELSE Note([m EXCEPT !.stash = Append(@, v)], "stashed", v[1])
       IN [m |-> Note(Note(m1, "attempts", i), "gaveup", i),
           iter |-> IF insertpos = NoPos THEN StashIter(StashFind(m1, v[1]))
                    ELSE VecIter(insertpos)]
  ELSE LET free == {j \in Seeds :
                      m.data[compute_hash(mx, m, v[1], j) + 1][1] = IllegalKey}
           found == free # {}
           idx == IF found THEN compute_hash(mx, m, v[1], SetMin(free))
                  ELSE compute_hash(mx, m, v[1], kranddist(m.drng))
           m0 == IF found THEN m ELSE [m EXCEPT !.drng = NextRng(@)]
           ip == IF insertpos = NoPos THEN idx
                 ELSE IF insertpos = idx THEN NoPos ELSE insertpos
           tmp == m.data[idx + 1]
           m1 == [m0 EXCEPT !.data[idx + 1] = v]
       IN IF found \/ tmp[1] = IllegalKey
          THEN [m |-> Note(m1, "attempts", i + 1), iter |-> VecIter(ip)]
          ELSE Walk(mx, Note(IF insertpos = idx THEN Note(m1, "bounced", tmp[1]) ELSE m1,
                             "displaced", tmp[1]), tmp, ip, i + 1)

(* the random walk of do_insert from iteration i on: v is the entry in     *)
(* hand, insertpos the slot of the entry being inserted (NoPos: in hand)   *)
Walk(mx, m, v, insertpos, i) ==
  IF i >= MaxKicks
  THEN LET m1 == IF StashFind(m, v[1]) <= Len(m.stash) THEN m
                 ELSE Note([m EXCEPT !.stash = Append(@, v)], "stashed", v[1])
       IN [m |-> Note(Note(m1, "attempts", i), "gaveup", i),
           iter |-> IF insertpos = NoPos THEN StashIter(StashFind(m1, v[1]))
                    ELSE VecIter(insertpos)]
  ELSE LET free == {j \in Seeds :
                      m.data[compute_hash(mx, m, v[1], j) + 1][1] = IllegalKey}
           found == free # {}
           idx == IF found THEN compute_hash(mx, m, v[1], SetMin(free))
                  ELSE compute_hash(mx, m, v[1], kranddist(m.drng))
           m0 == IF found THEN m ELSE [m EXCEPT !.drng = NextRng(@)]
           ip == IF insertpos = NoPos THEN idx
                 ELSE IF insertpos = idx THEN NoPos ELSE insertpos
           tmp == m.data[idx + 1]
           m1 == [m0 EXCEPT !.data[idx + 1] = v]
       IN IF found \/ tmp[1] = IllegalKey
          THEN [m |-> Note(m1, "attempts", i + 1), iter |-> VecIter(ip)]
          ELSE Walk(mx, Note(IF insertpos = idx THEN Note(m1, "bounced", tmp[1]) ELSE m1,
                             "displaced", tmp[1]), tmp, ip, i + 1)

(* mutant: ++numel is missing *)
do_insert_uncounted(mx, m, v) ==
  LET m1 == IF Len(m.stash) > MaxStash
            THEN reserve(mx, m, (datalen(m) * 3) \div 2)
            ELSE m
  IN Walk(mx, m1, v, NoPos, 0)

(* do_insert(v): resize when the stash is over maxstash, ++numel, walk.    *)
(* The trace notes a walk that starts while the stash is over maxstash,    *)
(* and for every resize its depth in the nest of resizes it is part of.    *)
do_insert(mx, m, v) ==
  LET m1 == IF Len(m.stash) > MaxStash
            THEN reserve(mx, m, (datalen(m) * 3) \div 2)
            ELSE m
      m2 == IF Len(m1.stash) > MaxStash THEN Note(m1, "overfull", v[1]) ELSE m1
      m3 == IF Len(m.stash) > MaxStash
            THEN Note(m2, "depth", m.lvl + 1) ELSE m2
  IN Walk(mx, [m3 EXCEPT !.numel = @ + 1], v, NoPos, 0)

(* insert(v): find, and do_insert when the key is absent *)
insert(mx, m, v) ==
  IF find(mx, m, v[1]) # end(m)
  THEN [m |-> m, iter |-> find(mx, m, v[1])]
  ELSE do_insert(mx, m, v)

(* the loop of rehash() over the slots, from slot i on; datalen is read    *)
(* again in every iteration                                                *)
RehashData(mx, m, i) ==
  IF i >= datalen(m) THEN m
  ELSE IF m.data[i + 1][1] = IllegalKey \/ count(mx, m, m.data[i + 1][1])
       THEN RehashData(mx, m, i + 1)
       ELSE LET v == m.data[i + 1]
                m1 == [m EXCEPT !.data[i + 1] = EmptySlot, !.numel = @ - 1]
            IN RehashData(mx, insert(mx, m1, v).m, i + 1)

(* the loop of rehash() over the old stash stmp, from its n-th entry on *)
RehashStash(mx, m, stmp, n) ==
  IF n > Len(stmp) THEN m
  ELSE RehashStash(mx, insert(mx, m, stmp[n]).m, stmp, n + 1)

(* mutant: the entries of the old stash are not inserted again *)
rehash_dropping_stash(mx, m) ==
  LET stmp == m.stash
      m1 == [m EXCEPT !.stash = <<>>, !.numel = @ - Len(stmp), !.lvl = @ + 1]
      m2 == RehashData(mx, m1, 0)
  IN [m2 EXCEPT !.lvl = @ - 1]

(* rehash(): the stash is swapped into stmp, the misplaced entries of the  *)
(* slot array are inserted again, then those of stmp                       *)
rehash(mx, m) ==
  LET stmp == m.stash
      m1 == [m EXCEPT !.stash = <<>>, !.numel = @ - Len(stmp), !.lvl = @ + 1]
      m2 == RehashStash(mx, RehashData(mx, m1, 0), stmp, 1)
  IN [m2 EXCEPT !.lvl = @ - 1]

(* reserve(newlen), newlen >= datalen: realloc, fill the new slots with    *)
(* (illegalkey, mapped_type()), datalen = newlen, rehash()                 *)
reserve(mx, m, newlen) ==
  LET grown == [m EXCEPT !.data = @ \o [n \in 1..(newlen - datalen(m)) |-> EmptySlot]]
      noted == IF m.lvl > 0 THEN Note(Note(grown, "resized", IllegalKey), "nested", IllegalKey)
               ELSE IF datalen(m) > 0 THEN Note(grown, "resized", IllegalKey)
               ELSE grown
  IN rehash(mx, noted)

(* mutant: stash.clear() is missing *)
destroy_all_keep_stash(m) == [m EXCEPT !.data = <<>>, !.numel = 0]

(* destroy_all() *)
destroy_all(m) == [m EXCEPT !.data = <<>>, !.stash = <<>>, !.numel = 0]

(* clear(): destroy_all(); reserve(128); *)
clear(mx, m) == reserve(mx, Note(destroy_all(m), "cleared", IllegalKey), InitLen)

(* operator[](i): find, do_insert of (i, mapped_type()) when absent; the   *)
(* iterator stands for the reference iter->second that is returned         *)
Index(mx, m, k) ==
  IF find(mx, m, k) = end(m)
  THEN do_insert(mx, m, <<k, 0>>)
  ELSE [m |-> m, iter |-> find(mx, m, k)]

(* mutant: erase(k) does not decrement numel *)
erase_keep_numel(mx, m, k) ==
  LET it == find(mx, m, k)
  IN IF it = end(m) THEN m
     ELSE IF ~it.in_stash THEN [m EXCEPT !.data[it.vec + 1] = EmptySlot]
     ELSE [m EXCEPT !.stash = SubSeq(@, 1, it.st - 1) \o SubSeq(@, it.st + 1, Len(@))]

(* erase(k): find, then erase(iterator) *)
erase(mx, m, k) ==
  LET it == find(mx, m, k)
  IN IF it = end(m) THEN m
     ELSE IF ~it.in_stash
          THEN IF m.data[it.vec + 1][1] # IllegalKey
               THEN [m EXCEPT !.data[it.vec + 1] = EmptySlot, !.numel = @ - 1]
               ELSE m
          ELSE IF it.st # Len(m.stash) + 1
               THEN [m EXCEPT !.numel = @ - 1,
                              !.stash = SubSeq(@, 1, it.st - 1)
                                          \o SubSeq(@, it.st + 1, Len(@))]
               ELSE m

size(m) == m.numel

(* begin(): the first slot holding an entry, else stash.begin() *)
NextVec(m, from) ==
  LET S == {i \in from..(datalen(m) - 1) : m.data[i + 1][1] # IllegalKey}
  IN IF S = {} THEN StashIter(1) ELSE VecIter(SetMin(S))
begin(m) == NextVec(m, 0)

(* iterator::operator++ *)
Incr(m, it) ==
  IF ~it.in_stash THEN NextVec(m, it.vec + 1)
  ELSE IF it.st # Len(m.stash) + 1 THEN StashIter(it.st + 1) ELSE it

(* the entries met from it up to end(), at most fuel of them *)
RECURSIVE Traverse(_, _, _)
Traverse(m, it, fuel) ==
  IF it = end(m) \/ fuel = 0 THEN <<>>
  ELSE <<Deref(m, it)>> \o Traverse(m, Incr(m, it), fuel - 1)

(* ---- the operations applied to one map, one action per call ---- *)
Absent == -1       \* no entry of the key

(* find(k) == end() ? Absent : find(k)->second *)
Lookup(mx, m, k) ==
  IF find(mx, m, k) = end(m) THEN Absent ELSE Deref(m, find(mx, m, k))[2]

Contents(mx, m) == [k \in DOMAIN mx |-> Lookup(mx, m, k)]

(* the keys operator[] may name: those hashed so far and the next new one; *)
(* find and erase name keys hashed before, present or not                  *)
UsableKeys == {k \in MapKeys : k <= Cardinality(DOMAIN mixed)}
(* the hash values of the keys once k has been hashed, with row for a new k *)
Hashed(k, row) == IF k \in DOMAIN mixed THEN mixed ELSE mixed @@ (k :> row)

NoRef == [key |-> IllegalKey, iter |-> VecIter(NoPos)]
(* nothing has been written to the archive *)
NoArchive == [saved |-> FALSE, numel |-> 0, length |-> 0, items |-> <<>>]

(* history after an operation op on key k, mx the hash values then known *)
Record(op, k, mx, ref, written, found) ==
  [nops |-> cmhist.nops + 1, op |-> op, key |-> k,
   before |-> Contents(mx, cmap), size_before |-> size(cmap),
   ref |-> ref, written |-> written, found |-> found,
   archive |-> cmhist.archive]

(* the process runs (it has not crashed) and the bound on calls is not met *)
CmCanStep == cmhist # <<>> /\ cmhist.nops < MaxOps /\ cmhist.op # "crashed"

(* m[k]: operator[] returns a reference *)
CmIndex(k, row) ==
  /\ CmCanStep
  /\ LET mx == Hashed(k, row)
         r == Index(mx, cmap, k)
     IN /\ mixed' = mx
        /\ cmap' = r.m
        /\ cmhist' = Record("index", k, mx, [key |-> k, iter |-> r.iter],
                            IF k \in DOMAIN cmhist.written THEN cmhist.written
                            ELSE cmhist.written @@ (k :> 0), Absent)
  /\ UNCHANGED <<parallel, config, ingress, ncalls, cluster>>

(* ... = val: a store through the reference the last operator[] returned,  *)
(* which is valid as long as no other call was made on the map             *)
CmWrite(val) ==
  /\ CmCanStep
  /\ cmhist.op \in {"index", "write"}
  /\ ValidIter(cmap, cmhist.ref.iter)
  /\ LET it == cmhist.ref.iter
         k == Deref(cmap, it)[1]
     IN /\ cmap' = IF it.in_stash THEN [cmap EXCEPT !.stash[it.st][2] = val]
                   ELSE [cmap EXCEPT !.data[it.vec + 1][2] = val]
        /\ cmhist' = Record("write", cmhist.ref.key, mixed, cmhist.ref,
                            [cmhist.written EXCEPT ![cmhist.ref.key] = val], Absent)
  /\ UNCHANGED <<parallel, config, ingress, ncalls, cluster, mixed>>

(* erase(k) *)
CmErase(k) ==
  /\ CmCanStep
  /\ cmap' = erase(mixed, cmap, k)
  /\ cmhist' = Record("erase", k, mixed, NoRef,
                      [j \in DOMAIN cmhist.written \ {k} |-> cmhist.written[j]],
                      Absent)
  /\ UNCHANGED <<parallel, config, ingress, ncalls, cluster, mixed>>

(* find(k), read: the value found, or Absent for end() *)
CmFind(k) ==
  /\ CmCanStep
  /\ cmhist' = Record("find", k, mixed, NoRef, cmhist.written,
                      Lookup(mixed, cmap, k))
  /\ UNCHANGED <<parallel, config, ingress, ncalls, cluster, cmap, mixed>>

(* clear() *)
CmClear ==
  /\ CmCanStep
  /\ cmap' = clear(mixed, cmap)
  /\ cmhist' = Record("clear", IllegalKey, mixed, NoRef, <<>>, Absent)
  /\ UNCHANGED <<parallel, config, ingress, ncalls, cluster, mixed>>

NextMap ==
  \/ \E k \in UsableKeys, row \in HashRows : CmIndex(k, row)
  \/ \E val \in MapValues : CmWrite(val)
  \/ \E k \in DOMAIN mixed : CmErase(k)
  \/ \E k \in DOMAIN mixed : CmFind(k)
  \/ CmClear

(* cuckoo_map(illegalkey, stashsize): numel(0), data(NULL), datalen(0),    *)
(* drng(time(NULL)), reserve(128)                                          *)
InitMap ==
  /\ numprocs = 1
  /\ usehash = FALSE
  /\ userecent = FALSE
  /\ hseed = 0
  /\ variant = "oblivious"
  /\ nthreads = 1
  /\ dht = <<>>
  /\ degree_dht = <<>>
  /\ proc_num_edges = [i \in 0..0 |-> 0]
  /\ obliv_lock = 0
  /\ th = [t \in 1..1 |-> IdleThread]
  /\ sent = <<>>
  /\ decided = <<>>
  /\ ncalls = 0
  /\ returned = 0
  /\ aborted = FALSE
  /\ cluster = <<>>
  /\ NoParallel
  /\ mixed = <<>>
  /\ \E seed \in Seeds :
       cmap = reserve(<<>>, [data |-> <<>>, stash |-> <<>>, numel |-> 0,
                             drng |-> seed, lvl |-> 0, trace |-> {}], InitLen)
  /\ cmhist = [nops |-> 0, op |-> "new", key |-> IllegalKey, before |-> <<>>,
               size_before |-> 0, ref |-> NoRef, written |-> <<>>,
               found |-> Absent, archive |-> NoArchive]
SpecMap == InitMap /\ [][NextMap]_vars

(* ---- save() and load() ---- *)
(* save(oarc): oarc << numel << illegalkey; serialize_iterator(oarc,       *)
(* begin(), end(), numel) writes the count and then every entry met from   *)
(* begin() to end()                                                        *)
save(m) ==
  LET items == Traverse(m, begin(m), datalen(m) + Len(m.stash))
  IN [saved |-> TRUE, numel |-> size(m), length |-> size(m), items |-> items]

(* deserialize_iterator(iarc, insert_iterator(this)): the entries of the   *)
(* archive from the x-th on are read and handed to cmap->insert(v)         *)
RECURSIVE deserialize_iterator(_, _, _, _)
deserialize_iterator(mx, m, ar, x) ==
  IF x > ar.length THEN m
  ELSE deserialize_iterator(mx, insert(mx, m, ar.items[x]).m, ar, x + 1)

(* the argument of reserve in load(): tmpnumel * 1.5, converted to size_t *)
LoadLen(ar) == (ar.numel * 3) \div 2

(* reserve(newlen) with newlen < datalen when std::uninitialized_fill      *)
(* (data_end(), data + newlen, ...), whose first iterator is past its      *)
(* last, returns without writing: the array is cut to newlen slots         *)
reserve_below(mx, m, newlen) ==
  rehash(mx, Note([m EXCEPT !.data = SubSeq(@, 1, newlen)], "shrunk", IllegalKey))

(* the map as a function from its keys to their values *)
AsContents(items) ==
  [k \in {items[n][1] : n \in 1..Len(items)} |->
     (CHOOSE e \in {items[n] : n \in 1..Len(items)} : e[1] = k)[2]]

Crashed == [cmhist EXCEPT !.op = "crashed", !.nops = @ + 1]
Loaded(ar) ==
  [cmhist EXCEPT !.op = "load", !.nops = @ + 1, !.key = IllegalKey,
                 !.before = <<>>, !.size_before = size(cmap), !.ref = NoRef,
                 !.written = AsContents(ar.items), !.found = Absent]

(* m.save(oarc); ASSERT_EQ(count, vsize) of serialize_iterator fails when  *)
(* the entries met are not numel many                                      *)
CmSave ==
  /\ CmCanStep
  /\ datalen(cmap) > 0
  /\ cmhist' = IF Len(save(cmap).items) = size(cmap)
               THEN [cmhist EXCEPT !.op = "save", !.nops = @ + 1,
                                   !.archive = save(cmap)]
               ELSE Crashed
  /\ UNCHANGED <<parallel, config, ingress, ncalls, cluster, cmap, mixed>>

(* m.load(iarc) from the archive written last: clear(); iarc >> tmpnumel   *)
(* >> illegalkey; reserve(tmpnumel * 1.5); deserialize_iterator.  When     *)
(* tmpnumel * 1.5 is below the datalen clear() has left, the fill of       *)
(* reserve runs from data_end() = data + datalen up to data + newlen,      *)
(* which is below it: undefined behaviour, which either writes past the    *)
(* array until the process dies or writes nothing                          *)
CmLoad ==
  /\ CmCanStep
  /\ cmhist.archive.saved
  /\ LET ar == cmhist.archive
         m1 == clear(mixed, cmap)
     IN IF LoadLen(ar) >= datalen(m1)
        THEN /\ cmap' = deserialize_iterator(mixed, reserve(mixed, m1, LoadLen(ar)), ar, 1)
             /\ cmhist' = Loaded(ar)
        ELSE \/ /\ cmap' = m1
                /\ cmhist' = Crashed
             \/ /\ cmap' = deserialize_iterator(mixed, reserve_below(mixed, m1, LoadLen(ar)), ar, 1)
                /\ cmhist' = Loaded(ar)
  /\ UNCHANGED <<parallel, config, ingress, ncalls, cluster, mixed>>

(* find / operator[] / insert on a map with datalen = 0: compute_hash      *)
(* evaluates s % datalen, an integer division by zero                      *)
CmHashNoSlots ==
  /\ CmCanStep
  /\ datalen(cmap) = 0
  /\ cmhist' = Crashed
  /\ UNCHANGED <<parallel, config, ingress, ncalls, cluster, cmap, mixed>>

NextSerial ==
  \/ \E k \in UsableKeys, row \in HashRows : datalen(cmap) > 0 /\ CmIndex(k, row)
  \/ \E val \in MapValues : datalen(cmap) > 0 /\ CmWrite(val)
  \/ \E k \in DOMAIN mixed : datalen(cmap) > 0 /\ CmErase(k)
  \/ \E k \in DOMAIN mixed : datalen(cmap) > 0 /\ CmFind(k)
  \/ CmSave
  \/ CmLoad
  \/ CmHashNoSlots
SpecSerial == InitMap /\ [][NextSerial]_vars

(* the same map when the caller also uses the reserved key illegalkey as a *)
(* key: operator[] and find run the code above on it; nothing in           *)
(* cuckoo_map.hpp tests a key against illegalkey before using it           *)
NextSentinel ==
  \/ \E row \in HashRows : CmIndex(IllegalKey, row)
  \/ \E k \in UsableKeys, row \in HashRows : CmIndex(k, row)
  \/ \E val \in MapValues : CmWrite(val)
  \/ \E k \in DOMAIN mixed : CmFind(k)
SpecSentinel == InitMap /\ [][NextSentinel]_vars

(* ------------------------------ finalize() ---------------------------- *)
(* a cluster of numprocs machines; each machine runs one ingress instance  *)
(* with one loader, which calls add_edge and finalize()                    *)
Machines == 0..(numprocs - 1)
NoReport == -1     \* nothing was logged by finalize()

(* the instance as constructed: empty tables, proc_num_edges(dc.numprocs()) *)
NewInstance ==
  [pc |-> "ingesting", dht |-> <<>>, deg |-> <<>>,
   load |-> [i \in 0..(numprocs - 1) |-> 0],
   calls |-> 0, late |-> 0, sends |-> 0, count |-> NoReport]

(* add_edge on the instance of machine m, as one call.  The code has no    *)
(* test of the state of the instance: the call runs the same way before    *)
(* and after finalize().  calls / late count the calls made before / after *)
(* finalize(), sends the records handed to edge_exchange.send.             *)
ClAddEdge(m, source, target) ==
  LET c == cluster[m]
      tbl == EnsureBits(c.dht, source, target)
      deg == IF variant = "hdrf" THEN EnsureDeg(c.deg, source, target) ELSE c.deg
      r == IF variant = "hdrf"
           THEN edge_to_proc_hdrf(source, target, tbl, deg, c.load, usehash, userecent)
           ELSE [deg |-> deg] @@
                edge_to_proc_greedy(source, target, tbl, c.load, usehash, userecent)
  IN /\ c.pc \in {"ingesting", "finalized"}
     /\ ncalls < MaxCalls
     /\ r.proc # InvalidProc
     /\ ncalls' = ncalls + 1
     /\ cluster' = [cluster EXCEPT ![m] =
           [c EXCEPT !.dht = r.dht, !.deg = r.deg, !.load = r.load,
                     !.calls = IF c.pc = "ingesting" THEN @ + 1 ELSE @,
                     !.late = IF c.pc = "finalized" THEN @ + 1 ELSE @,
                     !.sends = @ + 1]]
     /\ UNCHANGED <<parallel, config, ingress, cuckoo>>

(* mutant: finalize() leaves the tables as they are *)
ClFinalizeNoClear(m) ==
  /\ cluster[m].pc = "ingesting"
  /\ cluster' = [cluster EXCEPT ![m].pc = "base"]
  /\ UNCHANGED <<parallel, config, ingress, ncalls, cuckoo>>

(* finalize(): dht.clear(); and in the hdrf front-end degree_dht.clear();  *)
ClFinalizeClear(m) ==
  /\ cluster[m].pc = "ingesting"
  /\ cluster' = [cluster EXCEPT ![m].pc = "base", ![m].dht = <<>>, ![m].deg = <<>>]
  /\ UNCHANGED <<parallel, config, ingress, ncalls, cuckoo>>

(* distributed_ingress_base::finalize() is collective: it returns once     *)
(* every machine of the cluster has called it                              *)
BaseFinalizeReturns == \A m \in Machines : cluster[m].pc # "ingesting"

(* distributed_ingress_base<VertexData, EdgeData>::finalize(); the          *)
(* oblivious finalize() returns after it                                   *)
ClFinalizeBase(m) ==
  /\ cluster[m].pc = "base"
  /\ BaseFinalizeReturns
  /\ cluster' = [cluster EXCEPT ![m].pc =
                    IF variant = "hdrf" THEN "count" ELSE "finalized"]
  /\ UNCHANGED <<parallel, config, ingress, ncalls, cuckoo>>

(* hdrf only: count = sum of proc_num_edges of this instance;              *)
(* logstream(LOG_EMPH) << "TOTAL PROCESSED ELEMENTS: " << count            *)
ClFinalizeCount(m) ==
  /\ cluster[m].pc = "count"
  /\ cluster' = [cluster EXCEPT ![m].pc = "finalized",
                                ![m].count = SumLoad(cluster[m].load)]
  /\ UNCHANGED <<parallel, config, ingress, ncalls, cuckoo>>

NextCluster ==
  \/ \E m \in Machines, source, target \in ConcVertices : ClAddEdge(m, source, target)
  \/ \E m \in Machines : ClFinalizeClear(m)
  \/ \E m \in Machines : ClFinalizeBase(m)
  \/ \E m \in Machines : ClFinalizeCount(m)

(* MaxProcs machines, each with a fresh instance with the default flags *)
InitCluster ==
  /\ numprocs = MaxProcs
  /\ usehash = FALSE
  /\ userecent = FALSE
  /\ hseed = 0
  /\ variant \in {"oblivious", "hdrf"}
  /\ nthreads = 1
  /\ dht = <<>>
  /\ degree_dht = <<>>
  /\ proc_num_edges = [i \in 0..(numprocs - 1) |-> 0]
  /\ obliv_lock = 0
  /\ th = [t \in 1..1 |-> IdleThread]
  /\ sent = <<>>
  /\ decided = <<>>
  /\ ncalls = 0
  /\ returned = 0
  /\ aborted = FALSE
  /\ cluster = [m \in 0..(numprocs - 1) |-> NewInstance]
  /\ NoParallel
  /\ NoCuckoo
SpecCluster == InitCluster /\ [][NextCluster]_vars

(* either front-end, driven by a single loader thread *)
Init == InitWith({"oblivious", "hdrf"}, 1, 1..MaxProcs, 0..MaxSeed)
Next == NextObliv \/ NextHdrf
Spec == Init /\ [][Next]_vars

(* ======================== properties of the model ====================== *)
AllIdle == \A t \in Threads : th[t].pc = "idle"

(* positions of add_edge after the store of ++proc_num_edges[best_proc] *)
LoadCounted(t) ==
  th[t].pc \in {"incsrc", "incsrc_w", "incdst", "incdst_w", "unlock", "send"}
(* positions of add_edge after the replica bits were written *)
BitsWritten(t) == th[t].pc \in {"incload", "incload_w"} \/ LoadCounted(t)
(* positions of the oblivious add_edge between lock() and unlock() *)
InCritical(t) ==
  th[t].pc \in {"ensure", "score", "setbits", "incload", "incload_w", "unlock"}

(* C1: every call of the random, greedy and hdrf oracle returns a machine  *)
(* in 0..numprocs-1: the assertion never fails (top_procs is never empty), *)
(* no decision made is the invalid sentinel, and the random oracle answers *)
(* with a machine below numprocs for every edge.                           *)
C1_RangeSafety ==
  /\ ~aborted
  /\ \A k \in DOMAIN decided : decided[k].proc \in Procs
  /\ \A t \in Threads : BitsWritten(t) \/ th[t].pc = "setbits"
                           => th[t].best_proc \in Procs
  /\ \A u, v \in Vertices : edge_to_proc_random(u, v, numprocs) \in Procs

(* two decisions were made on two machines and went to different ones *)
C1_Witness ==
  /\ numprocs >= 2
  /\ Len(decided) >= 2
  /\ decided[1].proc # decided[2].proc
  /\ AllIdle

(* C2: with a single loader thread the load vector sums to the number of   *)
(* add_edge calls that have incremented it, hence to N after N calls; no   *)
(* step decreases an entry, and a step changes at most one entry, by one.  *)
C2_LoadSum ==
  SumLoad(proc_num_edges) = returned + Cardinality({t \in Threads : LoadCounted(t)})
C2_LoadStep ==
  /\ \A i \in Procs : proc_num_edges'[i] \in {proc_num_edges[i], proc_num_edges[i] + 1}
  /\ Cardinality({i \in Procs : proc_num_edges'[i] # proc_num_edges[i]}) <= 1
C2_LoadConservation == [](C2_LoadSum) /\ [][C2_LoadStep]_vars

(* two calls have returned and both edges went to the same machine *)
C2_Witness ==
  /\ AllIdle
  /\ returned = 2
  /\ \E i \in Procs : proc_num_edges[i] = 2

(* number of records sent to machine i *)
SentTo(i) == Cardinality({k \in DOMAIN sent : sent[k].to = i})

(* C3: with a single loader thread every returned add_edge has sent exactly *)
(* one record: the k-th record is the one of the k-th call, addressed to   *)
(* the machine the oracle returned for it, with source and target as the   *)
(* caller gave them; between calls load[i] is the number of records sent   *)
(* to machine i.                                                           *)
C3_OneSendPerEdge ==
  /\ Len(sent) = returned
  /\ \A k \in DOMAIN sent :
       /\ k <= Len(decided)
       /\ sent[k] = [to |-> decided[k].proc, source |-> decided[k].source,
                     target |-> decided[k].target, edata |-> k]
       /\ decided[k].edata = k
  /\ AllIdle => \A i \in Procs : proc_num_edges[i] = SentTo(i)

(* a record whose source is larger than its target has been sent, after    *)
(* another one, to a different machine                                     *)
C3_Witness ==
  /\ AllIdle
  /\ Len(sent) = 2
  /\ sent[2].source > sent[2].target
  /\ sent[1].to # sent[2].to

(* the locked section of the oblivious add_edge run as one step on the     *)
(* state st for the logged call e: dht[source]; dht[target]; and the call  *)
(* of edge_to_proc_greedy.  same: the oracle answers as logged.            *)
ObSection(st, e) ==
  LET tbl == EnsureBits(st.dht, e.source, e.target)
      r == edge_to_proc_greedy(e.source, e.target, tbl, st.load, usehash, userecent)
  IN [dht |-> r.dht, load |-> r.load, same |-> st.same /\ r.proc = e.proc]

(* the calls of log run one after the other on a fresh front-end *)
RECURSIVE SerialObliv(_)
SerialObliv(log) ==
  IF log = <<>>
  THEN [dht |-> <<>>, load |-> [i \in Procs |-> 0], same |-> TRUE]
  ELSE ObSection(SerialObliv(SubSeq(log, 1, Len(log) - 1)), log[Len(log)])

(* C4: concurrent calls of the oblivious add_edge never interleave between *)
(* lock() and unlock(): at most one thread is in that section and it holds *)
(* obliv_lock; whenever the lock is free the replica table and the load    *)
(* vector are those of running the calls decided so far one after the      *)
(* other, each choosing the machine it chose; and the loads sum to N once  *)
(* N calls have completed.                                                 *)
C4_Serializable ==
  /\ \A t1, t2 \in Threads : InCritical(t1) /\ InCritical(t2) => t1 = t2
  /\ \A t \in Threads : InCritical(t) => obliv_lock = t
  /\ obliv_lock = 0 =>
       LET r == SerialObliv(decided)
       IN r.same /\ dht = r.dht /\ proc_num_edges = r.load
  /\ AllIdle => SumLoad(proc_num_edges) = returned

(* two overlapping calls have completed: the call started second was sent  *)
(* first, and one thread waited for the lock while the other decided       *)
C4_Witness ==
  /\ AllIdle
  /\ returned = 2
  /\ sent[1].edata = 2
  /\ decided[1].edata = 1
  /\ decided[1].source # decided[1].target

(* C5: with concurrent loader threads in the hdrf front-end the loads sum  *)
(* to N after N completed add_edge calls.                                  *)
C5_HdrfLoadConservation == AllIdle => SumLoad(proc_num_edges) = returned

Touches(k, w) == w \in {decided[k].source, decided[k].target}
Incidences(w) == Cardinality({k \in DOMAIN decided : Touches(k, w)})
NoSelfLoops == \A k \in DOMAIN decided : decided[k].source # decided[k].target

(* C6: the hdrf add_edge is atomic per vertex: once the concurrent calls    *)
(* have completed (none of them a self-loop), the true-degree counter of   *)
(* every vertex w has grown by one per decided edge touching w, and (bits   *)
(* never being cleared when userecent is off) w's replica vector holds the  *)
(* machine of each of those edges.                                         *)
C6_HdrfVertexAtomic ==
  (AllIdle /\ NoSelfLoops) =>
    \A w \in DOMAIN degree_dht :
      /\ degree_dht[w] = Incidences(w)
      /\ ~userecent => \A k \in DOMAIN decided :
                          Touches(k, w) => decided[k].proc \in dht[w]

(* position in the decision history of the call with edge data e *)
DecisionIndex(e) == CHOOSE k \in DOMAIN decided : decided[k].edata = e

(* C7 as claimed: the lock being held until the record is dispatched, the  *)
(* records of any two calls reach the transport in the order in which      *)
(* their decisions were made.                                              *)
C7_SendsInDecisionOrder ==
  \A i, j \in DOMAIN sent :
    i < j => DecisionIndex(sent[i].edata) < DecisionIndex(sent[j].edata)

(* C7 as amended: obliv_lock is held from the entry lookups to the load     *)
(* increment and is released before the dispatch; every record sent is the *)
(* record of one decision, addressed to the machine decided, and no         *)
(* decision is sent twice (the order of the sends of concurrent calls is    *)
(* not fixed).                                                             *)
C7_LockCoversDecisionOnly ==
  /\ \A t \in Threads : InCritical(t) => obliv_lock = t
  /\ \A t \in Threads : th[t].pc = "send" => obliv_lock # t
  /\ \A k \in DOMAIN sent :
       \E j \in DOMAIN decided :
         sent[k] = [to |-> decided[j].proc, source |-> decided[j].source,
                    target |-> decided[j].target, edata |-> decided[j].edata]
  /\ \A i, j \in DOMAIN sent : i # j => sent[i].edata # sent[j].edata

(* the record of the second decision was handed to the transport first *)
C7_Witness ==
  /\ Len(sent) = 2
  /\ DecisionIndex(sent[1].edata) = 2
  /\ DecisionIndex(sent[2].edata) = 1

(* C8: after a greedy or hdrf decision for machine p, bit p is set in the  *)
(* replica vectors of source and target until add_edge returns; with       *)
(* userecent both vectors are exactly {p}.                                 *)
C8_ReplicaBitsSet ==
  \A t \in Threads :
    BitsWritten(t) =>
      LET p == th[t].best_proc
          src_degree == dht[th[t].source]
          dst_degree == dht[th[t].target]
      IN /\ p \in src_degree /\ p \in dst_degree
         /\ userecent => src_degree = {p} /\ dst_degree = {p}

(* with userecent, the second decision moved the source, which the first   *)
(* decision had placed on another machine, to its own machine              *)
C8_Witness ==
  \E t \in Threads :
    /\ th[t].pc = "send"
    /\ userecent
    /\ th[t].source # th[t].target
    /\ Len(decided) = 2
    /\ Touches(1, th[t].source)
    /\ decided[1].proc # decided[2].proc

(* C9: in every state in which an edge is about to be decided, the random, *)
(* greedy and hdrf oracles called on (source, target) and on (target,      *)
(* source), each vertex keeping its own replica vector and degree counter, *)
(* return the same machine and leave the same tables and loads.            *)
C9_Symmetry ==
  \A t \in Threads :
    th[t].pc = "score" =>
      LET u == th[t].source
          v == th[t].target
          tbl == EnsureBits(dht, u, v)
          deg == EnsureDeg(degree_dht, u, v)
      IN /\ edge_to_proc_random(u, v, numprocs) = edge_to_proc_random(v, u, numprocs)
         /\ edge_to_proc_greedy(u, v, tbl, proc_num_edges, usehash, userecent)
              = edge_to_proc_greedy(v, u, tbl, proc_num_edges, usehash, userecent)
         /\ edge_to_proc_hdrf(u, v, tbl, deg, proc_num_edges, usehash, userecent)
              = edge_to_proc_hdrf(v, u, tbl, deg, proc_num_edges, usehash, userecent)

(* an edge is about to be decided whose endpoints differ in replica vector *)
(* and degree, and whose two orientations hash to different machines       *)
C9_Witness ==
  \E t \in Threads :
    /\ th[t].pc = "score"
    /\ variant = "hdrf"
    /\ dht[th[t].source] # dht[th[t].target]
    /\ degree_dht[th[t].source] # degree_dht[th[t].target]
    /\ hash_edge(<<th[t].source, th[t].target>>) % numprocs
         # hash_edge(<<th[t].target, th[t].source>>) % numprocs

(* the machine the front-end's oracle chooses for the logged edge e when it *)
(* is the first edge of the stream                                         *)
FreshChoice(e) ==
  LET load0 == [i \in Procs |-> 0]
  IN IF variant = "hdrf"
     THEN edge_to_proc_hdrf(e.source, e.target, EnsureBits(<<>>, e.source, e.target),
                            EnsureDeg(<<>>, e.source, e.target), load0,
                            usehash, userecent).proc
     ELSE edge_to_proc_greedy(e.source, e.target, EnsureBits(<<>>, e.source, e.target),
                              load0, usehash, userecent).proc

Replay(e) ==
  IF variant = "hdrf"
  THEN edge_to_proc_hdrf(e.source, e.target, e.before.dht, e.before.deg,
                         e.before.load, usehash, userecent)
  ELSE [deg |-> e.before.deg] @@
       edge_to_proc_greedy(e.source, e.target, e.before.dht, e.before.load,
                           usehash, userecent)

C12_FreshIsRandom ==
  (~usehash /\ Len(decided) >= 1 /\ decided[1].source # decided[1].target) =>
    LET u == decided[1].source
        v == decided[1].target
        r == edge_to_proc_random(u, v, numprocs)
    IN /\ decided[1].proc = r
       /\ FreshChoice(decided[1]) = r
       /\ (variant = "hdrf" /\ AllIdle /\ returned = 1 /\ ncalls = 1) =>
            /\ proc_num_edges = [i \in Procs |-> IF i = r THEN 1 ELSE 0]
            /\ degree_dht[u] = 1 /\ degree_dht[v] = 1

(* the first hdrf call of a front-end on several machines has returned; it *)
(* placed an edge whose source is above its target                         *)
C12_Witness ==
  /\ variant = "hdrf" /\ ~usehash /\ numprocs >= 2
  /\ AllIdle /\ returned = 1 /\ ncalls = 1
  /\ decided[1].source > decided[1].target
  /\ proc_num_edges[decided[1].proc] = 1

(* edges after the first that went to another machine than the first *)
Elsewhere == {k \in DOMAIN decided : k >= 2 /\ decided[k].proc # decided[1].proc}

(* C13: in the repeated-vertex workload on a fresh hdrf front-end with the *)
(* default flags, of the HubEdges edges (10, t) decided after (10, 7),     *)
(* fewer than HubEdges / numprocs go to a machine other than the one that  *)
(* received (10, 7), whatever the hash function.                           *)
C13_HubAffinity == Cardinality(Elsewhere) * numprocs < HubEdges

(* the whole workload has been ingested and the machine of the first edge  *)
(* holds all the load                                                      *)
C13_Witness ==
  /\ AllIdle
  /\ returned = HubEdges + 1
  /\ proc_num_edges[decided[1].proc] = HubEdges + 1
  /\ degree_dht[10] = HubEdges + 1

(* add_edge calls made in the whole cluster before finalize() *)
RECURSIVE TotalCalls(_)
TotalCalls(M) == IF M = {} THEN 0
                 ELSE LET m == CHOOSE x \in M : TRUE
                      IN cluster[m].calls + TotalCalls(M \ {m})

(* C14: the edge count that finalize() reports on a machine is the number  *)
(* of add_edge calls made on all machines of the cluster.                  *)
C14_GlobalCount ==
  \A m \in DOMAIN cluster :
    cluster[m].count # NoReport => cluster[m].count = TotalCalls(DOMAIN cluster)

(* C15: when finalize() invokes the finalize of the base ingress, the      *)
(* replica table and (hdrf) the true-degree table of the instance are      *)
(* empty; and no step of finalize() changes the load vector.               *)
C15_TablesEmpty ==
  \A m \in DOMAIN cluster :
    cluster[m].pc = "base" => cluster[m].dht = <<>> /\ cluster[m].deg = <<>>
C15_FinalizeStep ==
  \A m \in DOMAIN cluster :
    cluster'[m].pc # cluster[m].pc => cluster'[m].load = cluster[m].load
C15_ClearBeforeBase == [](C15_TablesEmpty) /\ [][C15_FinalizeStep]_vars

(* an hdrf instance that ingested two edges is about to call the base      *)
(* finalize                                                                *)
C15_Witness ==
  \E m \in DOMAIN cluster :
    /\ variant = "hdrf"
    /\ cluster[m].pc = "base"
    /\ cluster[m].calls = 2
    /\ SumLoad(cluster[m].load) = 2

(* C16: an add_edge issued after finalize() has returned has no effect: on *)
(* a finalized instance the tables are empty, the loads sum to the calls   *)
(* made before finalize() and only those calls dispatched a record.        *)
C16_LifecycleEnforced ==
  \A m \in DOMAIN cluster :
    cluster[m].pc = "finalized" =>
      /\ cluster[m].dht = <<>>
      /\ SumLoad(cluster[m].load) = cluster[m].calls
      /\ cluster[m].sends = cluster[m].calls

(* C17: operator[] never fails.  After m[k] the reference returned points  *)
(* at an entry of key k; if k was present size() is unchanged and the      *)
(* entry holds k's value, if k was absent size() has grown by exactly 1    *)
(* and the entry holds the default value; every other key is present with  *)
(* the value it had, or absent, as before.                                 *)
C17_IndexNeverFails ==
  cmhist.op = "index" =>
    LET k == cmhist.key
        was == cmhist.before[k]
        it == cmhist.ref.iter
    IN /\ ValidIter(cmap, it)
       /\ Deref(cmap, it)[1] = k
       /\ Deref(cmap, it)[2] = IF was = Absent THEN 0 ELSE was
       /\ size(cmap) = cmhist.size_before + (IF was = Absent THEN 1 ELSE 0)
       /\ \A j \in DOMAIN mixed \ {k} : Lookup(mixed, cmap, j) = cmhist.before[j]

(* m[k] of an absent key forced a resize, and another key holds a value    *)
(* written earlier                                                         *)
C17_Witness ==
  /\ cmhist.op = "index"
  /\ cmhist.before[cmhist.key] = Absent
  /\ cmhist.size_before = 2
  /\ <<"resized", IllegalKey>> \in cmap.trace
  /\ \E j \in DOMAIN mixed : cmhist.before[j] \in MapValues

(* C18: the value last written through the reference operator[] returned   *)
(* for key k (the default value if none was written) is the value every    *)
(* later lookup of k returns, by find or by operator[], whatever happened  *)
(* to other keys in between, until k is erased.                            *)
C18_RoundTrip ==
  /\ \A k \in DOMAIN cmhist.written : Lookup(mixed, cmap, k) = cmhist.written[k]
  /\ cmhist.op = "find" /\ cmhist.key \in DOMAIN cmhist.written
       => cmhist.found = cmhist.written[cmhist.key]
  /\ cmhist.op \in {"index", "write"} /\ ValidIter(cmap, cmhist.ref.iter)
       => Deref(cmap, cmhist.ref.iter)[2] = cmhist.written[cmhist.ref.key]

(* a key holds a written value; its entry was displaced by the insertion   *)
(* of another key and now lives in the stash                               *)
C18_Witness ==
  \E k \in DOMAIN cmhist.written :
    /\ cmhist.written[k] \in MapValues
    /\ <<"displaced", k>> \in cmap.trace
    /\ find(mixed, cmap, k).in_stash
    /\ cmhist.op = "index" /\ cmhist.key # k

(* C19: after erase(k) of a present key, count(k) is false, size() has     *)
(* decreased by exactly 1 and every other key is present with its value,   *)
(* or absent, as before; erase(k) of an absent key leaves the map as it    *)
(* was.                                                                    *)
C19_EraseState ==
  cmhist.op = "erase" =>
    LET k == cmhist.key
        was == cmhist.before[k]
    IN /\ ~count(mixed, cmap, k)
       /\ Lookup(mixed, cmap, k) = Absent
       /\ size(cmap) = cmhist.size_before - (IF was = Absent THEN 0 ELSE 1)
       /\ \A j \in DOMAIN mixed \ {k} : Lookup(mixed, cmap, j) = cmhist.before[j]
C19_EraseStep ==
  (cmhist'.nops # cmhist.nops /\ cmhist'.op = "erase"
     /\ cmhist'.before[cmhist'.key] = Absent) => cmap' = cmap
C19_Erase == [](C19_EraseState) /\ [][C19_EraseStep]_vars

(* the key erased lived in the stash, another key stays in the slot array  *)
C19_Witness ==
  /\ cmhist.op = "erase"
  /\ cmhist.nops = 3
  /\ cmhist.before[cmhist.key] # Absent
  /\ <<"stashed", cmhist.key>> \in cmap.trace
  /\ <<"resized", IllegalKey>> \notin cmap.trace
  /\ size(cmap) = 1

(* the entries met by iterating from begin() to end() *)
Entries == Traverse(cmap, begin(cmap), datalen(cmap) + Len(cmap.stash))

(* C20: in every reachable state, in particular after resizes and resizes  *)
(* inside a running rehash, size() is the number of keys present and the   *)
(* iteration from begin() to end() yields size() entries: every present    *)
(* key exactly once, with the value last written, and nothing else.        *)
C20_RehashPreserves ==
  /\ size(cmap) = Cardinality(DOMAIN cmhist.written)
  /\ Len(Entries) = size(cmap)
  /\ \A n \in 1..Len(Entries) :
       /\ Entries[n][1] \in DOMAIN cmhist.written
       /\ Entries[n][2] = cmhist.written[Entries[n][1]]
  /\ \A k \in DOMAIN cmhist.written :
       Cardinality({n \in 1..Len(Entries) : Entries[n][1] = k}) = 1

(* four keys were inserted; the last insertion forced a resize, and a      *)
(* second resize while the rehash of the first was inserting entries again *)
C20_Witness ==
  /\ <<"nested", IllegalKey>> \in cmap.trace
  /\ size(cmap) = 4
  /\ Len(Entries) = 4

(* C21: clear() leaves an empty table at the capacity of a new one: size() *)
(* is 0, the stash is empty, the slot array has InitLen slots (128 in the  *)
(* source), all holding the illegal key, and every key is absent; and the  *)
(* first operator[] after it inserts its key as into a new table.          *)
C21_ClearResets ==
  /\ cmhist.op = "clear" =>
       /\ size(cmap) = 0
       /\ cmap.stash = <<>>
       /\ cmap.data = [n \in 1..InitLen |-> EmptySlot]
       /\ \A k \in DOMAIN mixed : Lookup(mixed, cmap, k) = Absent /\ ~count(mixed, cmap, k)
       /\ begin(cmap) = end(cmap)
  /\ (cmhist.op = "index" /\ <<"cleared", IllegalKey>> \in cmap.trace
        /\ cmhist.size_before = 0) =>
       /\ size(cmap) = 1
       /\ Entries = << <<cmhist.key, 0>> >>
       /\ find(mixed, cmap, cmhist.key) = cmhist.ref.iter

(* clear() of a table that held two keys, one of them in the stash *)
C21_Witness ==
  /\ cmhist.op = "clear"
  /\ cmhist.size_before = 2
  /\ \E k \in DOMAIN mixed : <<"stashed", k>> \in cmap.trace /\ cmhist.before[k] # Absent
  /\ <<"resized", IllegalKey>> \notin cmap.trace

(* C22: using the reserved illegal key as a key of the table, by           *)
(* operator[] or find, aborts the process: it returns no entry and leaves  *)
(* the table as it was.                                                    *)
C22_SentinelFatal ==
  (cmhist.op \in {"index", "find"} /\ cmhist.key = IllegalKey) =>
    /\ aborted
    /\ cmhist.ref = NoRef
    /\ size(cmap) = cmhist.size_before

(* C23: save() followed by load() yields a table with size() equal to the  *)
(* number n of saved entries, holding exactly the saved key -> value       *)
(* pairs, on which later lookups and insertions work, for every n >= 0.    *)
C23_SerializationRoundTrip ==
  /\ cmhist.op # "crashed"
  /\ cmhist.op = "load" =>
       /\ size(cmap) = cmhist.archive.numel
       /\ datalen(cmap) > 0
       /\ Len(Entries) = cmhist.archive.numel
       /\ \A k \in DOMAIN cmhist.written : Lookup(mixed, cmap, k) = cmhist.written[k]

(* C24: every hdrf decision for an edge (u, v), u = v included, leaves the *)
(* true-degree counter of each vertex of the edge exactly one greater      *)
(* than it was when the decision was made (single loader thread, the call  *)
(* has returned).                                                          *)
C24_DegreePlusOne ==
  (variant = "hdrf" /\ AllIdle /\ ncalls >= 1 /\ Len(decided) = ncalls) =>
    LET e == decided[ncalls]
    IN \A w \in DOMAIN e.before.deg : degree_dht[w] = e.before.deg[w] + 1

(* ===================================================================== *)
(* The decision oracles called in the middle of a stream                  *)
(* ===================================================================== *)
(* Each oracle is called once on tables and loads that earlier edges have  *)
(* left behind: three machines, loads that differ by 0, 2, 99997 or 99999  *)
(* (on these the tolerance test of WithinTol agrees with the doubles), the *)
(* replica bitsets and true degrees of two vertices seen before (an empty  *)
(* bitset is the entry operator[] has just created).  Vertex 3 is never    *)
(* seen before; with three machines it shares its hash machine with        *)
(* vertex 0.                                                               *)
OracleMachines == {0, 1, 2}
OracleSeen == {0, 1}
OracleVertices == {0, 1, 3}
LoadValues == {0, 2, 99999}
OracleCandidates ==
  {<<a>> : a \in OracleMachines}
    \cup {c \in OracleMachines \X OracleMachines : c[1] # c[2]}

(* a machine holds a replica only after it was given an edge; a vertex has *)
(* at least as many edges as replicas                                      *)
OracleDegrees(bits) ==
  IF bits = {} THEN {0} ELSE {Cardinality(bits), Cardinality(bits) + 2}

InitOracle ==
  /\ numprocs = Cardinality(OracleMachines)
  /\ usehash \in BOOLEAN
  /\ userecent \in BOOLEAN
  /\ hseed \in 0..MaxSeed
  /\ variant \in {"oblivious", "hdrf"}
  /\ nthreads = 1
  /\ proc_num_edges \in [OracleMachines -> LoadValues]
  /\ dht \in [OracleSeen -> SUBSET OracleMachines]
  /\ \A w \in OracleSeen : \A i \in dht[w] : proc_num_edges[i] > 0
  /\ IF variant = "hdrf"
     THEN /\ degree_dht \in [OracleSeen -> 0..(Cardinality(OracleMachines) + 2)]
          /\ \A w \in OracleSeen : degree_dht[w] \in OracleDegrees(dht[w])
     ELSE degree_dht = <<>>
  /\ obliv_lock = 0
  /\ th = [t \in 1..1 |-> IdleThread]
  /\ sent = <<>>
  /\ decided = <<>>
  /\ ncalls = 0
  /\ returned = 0
  /\ aborted = FALSE
  /\ cluster = <<>>
  /\ NoParallel
  /\ NoCuckoo

(* mutant: the position in candidates is collected, not the machine *)
TopCandidatesByPosition(score, candidates, den) ==
  LET maxscore == SetMax({score[j] : j \in DOMAIN score})
      top == AscSeq({j \in DOMAIN score : WithinTol(score[j], maxscore, den)})
  IN [n \in 1..Len(top) |-> top[n] - 1]

(* the loop that fills top_procs from proc_score[j], j a position of       *)
(* candidates: top_procs.push_back(candidates[j])                          *)
TopCandidates(score, candidates, den) ==
  LET maxscore == SetMax({score[j] : j \in DOMAIN score})
      top == AscSeq({j \in DOMAIN score : WithinTol(score[j], maxscore, den)})
  IN [n \in 1..Len(top) |-> candidates[top[n]]]

(* edge_to_proc_random over a list of candidates *)
edge_to_proc_random_candidates(source, target, candidates) ==
  candidates[(hash_edge(edge_pair(source, target)) % Len(candidates)) + 1]

(* edge_to_proc_greedy over a list of candidates: the scores of the        *)
(* candidates only, minedges and maxedges over all machines                *)
edge_to_proc_greedy_candidates(source, target, tbl, candidates, load, uh, ur) ==
  LET proc_score == [j \in 1..Len(candidates) |->
                       GreedyScore(candidates[j], source, target,
                                   tbl[source], tbl[target], load, uh)]
      top_procs == TopCandidates(proc_score, candidates, BalDen(load))
      best_proc == PickBest(top_procs, source, target)
  IN IF ~AssertLt(best_proc, Cardinality(DOMAIN load))
     THEN [proc |-> InvalidProc, dht |-> tbl, load |-> load]
     ELSE [proc |-> best_proc,
           dht  |-> SetReplicaBits(tbl, source, target, best_proc, ur),
           load |-> [load EXCEPT ![best_proc] = @ + 1]]

(* the call is recorded with the entries and loads it was made on *)
OracleCall(name, source, target, candidates, tbl, deg, r) ==
  /\ ncalls = 0
  /\ ncalls' = 1
  /\ decided' = <<[oracle |-> name, source |-> source, target |-> target,
                   candidates |-> candidates, edata |-> 1, proc |-> r.proc,
                   before |-> [dht |-> tbl, deg |-> deg,
                               load |-> proc_num_edges]]>>
  /\ dht' = r.dht
  /\ degree_dht' = r.deg
  /\ proc_num_edges' = r.load
  /\ aborted' = (r.proc = InvalidProc)
  /\ UNCHANGED <<parallel, config, cluster, cuckoo, obliv_lock, th, sent, returned>>

OrGreedy(source, target) ==
  /\ variant = "oblivious"
  /\ LET tbl == EnsureBits(dht, source, target)
         r == edge_to_proc_greedy(source, target, tbl, proc_num_edges,
                                  usehash, userecent)
     IN OracleCall("greedy", source, target, <<>>, tbl, degree_dht,
                   [proc |-> r.proc, dht |-> r.dht, deg |-> degree_dht,
                    load |-> r.load])

OrGreedyCandidates(source, target, candidates) ==
  /\ variant = "oblivious"
  /\ LET tbl == EnsureBits(dht, source, target)
         r == edge_to_proc_greedy_candidates(source, target, tbl, candidates,
                                             proc_num_edges, usehash, userecent)
     IN OracleCall("greedy_candidates", source, target, candidates, tbl,
                   degree_dht,
                   [proc |-> r.proc, dht |-> r.dht, deg |-> degree_dht,
                    load |-> r.load])

(* the random oracle consults no table: it is called before any replica    *)
(* exists                                                                  *)
OrRandomCandidates(source, target, candidates) ==
  /\ variant = "oblivious"
  /\ \A w \in OracleSeen : dht[w] = {}
  /\ OracleCall("random_candidates", source, target, candidates, dht,
                degree_dht,
                [proc |-> edge_to_proc_random_candidates(source, target, candidates),
                 dht |-> dht, deg |-> degree_dht, load |-> proc_num_edges])

OrHdrf(source, target) ==
  /\ variant = "hdrf"
  /\ LET tbl == EnsureBits(dht, source, target)
         deg == EnsureDeg(degree_dht, source, target)
     IN OracleCall("hdrf", source, target, <<>>, tbl, deg,
                   edge_to_proc_hdrf(source, target, tbl, deg, proc_num_edges,
                                     usehash, userecent))

NextOracle ==
  \/ \E source, target \in OracleVertices : OrGreedy(source, target)
  \/ \E source, target \in OracleVertices : OrHdrf(source, target)
  \/ \E source, target \in OracleSeen, candidates \in OracleCandidates :
       OrGreedyCandidates(source, target, candidates)
  \/ \E source, target \in OracleSeen, candidates \in OracleCandidates :
       OrRandomCandidates(source, target, candidates)

SpecOracle == InitOracle /\ [][NextOracle]_vars

(* the last oracle call and what it was made on *)
Last == decided[1]
Called(name) == ncalls = 1 /\ Len(decided) = 1 /\ Last.oracle = name
Spread(load) == maxedges(load) - minedges(load)

(* --------------------------- hash fallback ---------------------------- *)
(* the unrestricted greedy or hdrf oracle was called with usehash on an    *)
(* edge neither endpoint of which has a replica anywhere                   *)
HashFallbackCall ==
  /\ Called("greedy") \/ Called("hdrf")
  /\ usehash
  /\ Last.before.dht[Last.source] = {}
  /\ Last.before.dht[Last.target] = {}

HashMachines == {Last.source % numprocs, Last.target % numprocs}

(* C25 as stated: with usehash, an edge whose endpoints have no replica    *)
(* anywhere is placed by greedy and by hdrf on the hash machine of one of  *)
(* its endpoints, whatever the loads, for load spreads below 10^5.         *)
C25_HashFallback ==
  (HashFallbackCall /\ Spread(Last.before.load) < TolInv) =>
    Last.proc \in HashMachines

(* C25 amended: the same for load spreads below 10^5 - 1, that is while    *)
(* 1 / (1 + spread) exceeds the tolerance.                                 *)
C25_HashFallbackBelow ==
  (HashFallbackCall /\ Spread(Last.before.load) + Epsilon < TolInv) =>
    Last.proc \in HashMachines

(* the chosen hash machine carries 99997 edges more than another machine,  *)
(* which is the hash machine of neither endpoint                           *)
C25_Witness ==
  /\ HashFallbackCall
  /\ Spread(Last.before.load) + Epsilon < TolInv
  /\ \E i \in OracleMachines \ HashMachines :
       Last.before.load[Last.proc] >= Last.before.load[i] + 99997
  /\ Last.proc \in HashMachines

(* ------------------------ restricted oracles -------------------------- *)
ListedIn(candidates) == {candidates[j] : j \in 1..Len(candidates)}

(* C26: for every non-empty list of machines, edge_to_proc_random and      *)
(* edge_to_proc_greedy restricted to the list return one of its elements;  *)
(* restricted greedy sets the replica bit of that machine, and of no       *)
(* other, on both endpoints and increments that machine's load, and no     *)
(* other, by one.                                                          *)
C26_CandidateRestricted ==
  /\ Called("random_candidates") => Last.proc \in ListedIn(Last.candidates)
  /\ Called("greedy_candidates") =>
       /\ Last.proc \in ListedIn(Last.candidates)
       /\ \A w \in {Last.source, Last.target} :
            /\ Last.proc \in dht[w]
            /\ dht[w] \ Last.before.dht[w] \subseteq {Last.proc}
       /\ \A i \in OracleMachines :
            proc_num_edges[i] =
              Last.before.load[i] + (IF i = Last.proc THEN 1 ELSE 0)

(* restricted greedy returned the second of two candidates, a machine the  *)
(* unrestricted oracle would not have chosen on the same tables            *)
C26_Witness ==
  /\ Called("greedy_candidates")
  /\ Len(Last.candidates) = 2
  /\ Last.candidates[1] # Last.candidates[2]
  /\ Last.proc = Last.candidates[2]
  /\ Last.proc \notin ListedIn(GreedyTop(Last.source, Last.target,
                                          Last.before.dht[Last.source],
                                          Last.before.dht[Last.target],
                                          Last.before.load, usehash))

(* ------------------------- the greedy formula ------------------------- *)
(* The machine a score formula selects for the last call: the element at   *)
(* index hash(canonical pair) mod |T| of the ascending list T of the       *)
(* machines whose score is within 1e-5 of the maximum.  num[i] / den is    *)
(* the score of machine i.                                                 *)
Selected(num, den) ==
  LET best == CHOOSE x \in {num[i] : i \in OracleMachines} :
                \A i \in OracleMachines : num[i] <= x
      T == AscSeq({i \in OracleMachines : WithinTol(num[i], best, den)})
      lo == IF Last.source <= Last.target THEN Last.source ELSE Last.target
      hi == IF Last.source <= Last.target THEN Last.target ELSE Last.source
  IN T[(hash_edge(<<lo, hi>>) % Len(T)) + 1]

(* (maxLoad - load[i]) / (1 + maxLoad - minLoad) + bonus[i], as a          *)
(* numerator over 1 + maxLoad - minLoad                                    *)
WithBalance(bonus) ==
  LET load == Last.before.load
      maxLoad == CHOOSE x \in {load[i] : i \in OracleMachines} :
                   \A i \in OracleMachines : load[i] <= x
      minLoad == CHOOSE x \in {load[i] : i \in OracleMachines} :
                   \A i \in OracleMachines : load[i] >= x
  IN [num |-> [i \in OracleMachines |->
                 (maxLoad - load[i]) + (1 + maxLoad - minLoad) * bonus[i]],
      den |-> 1 + maxLoad - minLoad]

SrcBit(i) == IF i \in Last.before.dht[Last.source] THEN 1 ELSE 0
DstBit(i) == IF i \in Last.before.dht[Last.target] THEN 1 ELSE 0
SrcHash(i) == IF usehash /\ Last.source % numprocs = i THEN 1 ELSE 0
DstHash(i) == IF usehash /\ Last.target % numprocs = i THEN 1 ELSE 0

(* the bonus of C27: replica bits plus hash machines, added up *)
BonusAdded == [i \in OracleMachines |-> SrcBit(i) + DstBit(i) + SrcHash(i) + DstHash(i)]

(* the bonus with each endpoint counted once: 1 for the source if machine  *)
(* i holds its replica or is its hash machine, likewise for the target     *)
BonusOnce ==
  [i \in OracleMachines |->
     (IF SrcBit(i) + SrcHash(i) > 0 THEN 1 ELSE 0)
       + (IF DstBit(i) + DstHash(i) > 0 THEN 1 ELSE 0)]

(* C27 as stated: edge_to_proc_greedy returns the machine selected by      *)
(* score(i) = balance(i) + [src bit i] + [dst bit i], plus with usehash 1  *)
(* if source mod n = i and 1 if target mod n = i, so that a machine that   *)
(* holds the source's replica and is its hash machine receives 2 for the   *)
(* source.                                                                 *)
C27_GreedyFormula ==
  Called("greedy") =>
    Last.proc = Selected(WithBalance(BonusAdded).num, WithBalance(BonusAdded).den)

(* C27 amended: edge_to_proc_greedy returns the machine selected by        *)
(* score(i) = balance(i) + [src bit i or (usehash and source mod n = i)]   *)
(* + [dst bit i or (usehash and target mod n = i)]: each endpoint          *)
(* contributes at most 1.                                                  *)
C27_GreedyFormulaOnce ==
  Called("greedy") =>
    Last.proc = Selected(WithBalance(BonusOnce).num, WithBalance(BonusOnce).den)

(* with usehash the chosen machine is not the one the added-up bonus       *)
(* selects: the hash machine of the source already holds its replica       *)
C27_Witness ==
  /\ Called("greedy")
  /\ usehash
  /\ Last.source % numprocs \in Last.before.dht[Last.source]
  /\ Last.proc # Selected(WithBalance(BonusAdded).num, WithBalance(BonusAdded).den)
  /\ Last.proc = Selected(WithBalance(BonusOnce).num, WithBalance(BonusOnce).den)

(* -------------------------- the hdrf formula -------------------------- *)
(* degU = trueDegree(u) + 1, degV = trueDegree(v) + 1, read before the     *)
(* call's increments                                                       *)
DegU == Last.before.deg[Last.source] + 1
DegV == Last.before.deg[Last.target] + 1

(* 2 - fu for a machine with the source's bit, 2 - fv with the target's,   *)
(* times degU + degV:  (2 - fu) * (degU + degV) = degU + 2 * degV          *)
BonusWeighted ==
  [i \in OracleMachines |->
     SrcBit(i) * (DegU + 2 * DegV) + DstBit(i) * (2 * DegU + DegV)]

(* balance(i) + bonus(i), as a numerator over                              *)
(* (1 + maxLoad - minLoad) * (degU + degV)                                 *)
HdrfFormula ==
  LET bal == WithBalance([i \in OracleMachines |-> 0])
  IN [num |-> [i \in OracleMachines |->
                 bal.num[i] * (DegU + DegV) + bal.den * BonusWeighted[i]],
      den |-> bal.den * (DegU + DegV)]

(* C28: with usehash off, edge_to_proc_hdrf returns the machine selected   *)
(* by score(i) = balance(i) + (2 - fu if the source has a replica on i)    *)
(* + (2 - fv if the target has a replica on i), fu = degU / (degU + degV), *)
(* fv = degV / (degU + degV), degrees read before the call's increment.    *)
C28_HdrfFormula ==
  (Called("hdrf") /\ ~usehash) =>
    Last.proc = Selected(HdrfFormula.num, HdrfFormula.den)

(* the endpoints have different degrees, their replicas are on different   *)
(* machines and the loads are unequal                                      *)
C28_Witness ==
  /\ Called("hdrf")
  /\ ~usehash
  /\ DegU # DegV
  /\ \E i, j \in OracleMachines :
       /\ SrcBit(i) = 1 /\ DstBit(i) = 0
       /\ SrcBit(j) = 0 /\ DstBit(j) = 1
       /\ Last.before.load[i] # Last.before.load[j]
  /\ Last.proc = Selected(HdrfFormula.num, HdrfFormula.den)

(* ------------------------- degree weighting --------------------------- *)
(* an hdrf call, usehash off, on equal loads, each endpoint with a replica *)
(* somewhere and no machine with replicas of both                          *)
SplitReplicas ==
  /\ Called("hdrf")
  /\ ~usehash
  /\ \A i, j \in OracleMachines : Last.before.load[i] = Last.before.load[j]
  /\ Last.before.dht[Last.source] # {}
  /\ Last.before.dht[Last.target] # {}
  /\ Last.before.dht[Last.source] \cap Last.before.dht[Last.target] = {}

(* C29: under these conditions, when trueDegree(source) is below           *)
(* trueDegree(target) the chosen machine holds a replica of the source,    *)
(* and when trueDegree(target) is below trueDegree(source) it holds a      *)
(* replica of the target: the endpoint of higher degree is the one that    *)
(* is replicated.                                                          *)
C29_DegreeWeighting ==
  SplitReplicas =>
    /\ Last.before.deg[Last.source] < Last.before.deg[Last.target] =>
         /\ Last.proc \in Last.before.dht[Last.source]
         /\ dht[Last.target] = (IF userecent THEN {} ELSE Last.before.dht[Last.target])
                                 \cup {Last.proc}
    /\ Last.before.deg[Last.target] < Last.before.deg[Last.source] =>
         /\ Last.proc \in Last.before.dht[Last.target]
         /\ dht[Last.source] = (IF userecent THEN {} ELSE Last.before.dht[Last.source])
                                 \cup {Last.proc}

(* the source has the lower degree; the target, of higher degree, gets a   *)
(* new replica on a machine of the source                                  *)
C29_Witness ==
  /\ SplitReplicas
  /\ Last.before.deg[Last.source] < Last.before.deg[Last.target]
  /\ Last.proc \in Last.before.dht[Last.source]
  /\ Last.proc \notin Last.before.dht[Last.target]
  /\ Last.proc \in dht[Last.target]

(* -------------------------- replica affinity -------------------------- *)
(* the number of the edge's endpoints that machine i holds a replica of *)
Held(i) == SrcBit(i) + DstBit(i)
MostHeld == CHOOSE n \in {Held(i) : i \in OracleMachines} :
              \A i \in OracleMachines : Held(i) <= n

(* the chosen machine holds the most endpoints; for greedy none of the     *)
(* machines holding as many has a lower load; an endpoint gets a new       *)
(* replica only when no machine holds both                                 *)
AffinityFirst ==
  /\ Held(Last.proc) = MostHeld
  /\ Called("greedy") =>
       \A i \in OracleMachines :
         Held(i) = MostHeld => Last.before.load[Last.proc] <= Last.before.load[i]
  /\ (\E w \in {Last.source, Last.target} : Last.proc \notin Last.before.dht[w])
       => MostHeld < 2

AffinityCall == (Called("greedy") \/ Called("hdrf")) /\ ~usehash

(* C30 as stated: with usehash off and a load spread below 10^5, the       *)
(* machine chosen by greedy and by hdrf holds replicas of the maximum      *)
(* number of the edge's endpoints over all machines, for greedy it has the *)
(* minimum load among the machines with that number, and a new replica of  *)
(* an endpoint is created only when no machine holds both endpoints.       *)
C30_AffinityDominates ==
  (AffinityCall /\ Spread(Last.before.load) < TolInv) => AffinityFirst

(* C30 amended: the same for load spreads below 10^5 - 1. *)
C30_AffinityDominatesBelow ==
  (AffinityCall /\ Spread(Last.before.load) + Epsilon < TolInv) => AffinityFirst

(* the chosen machine holds one endpoint and carries 99997 edges more than *)
(* a machine that holds none                                               *)
C30_Witness ==
  /\ AffinityCall
  /\ Spread(Last.before.load) + Epsilon < TolInv
  /\ Held(Last.proc) = 1
  /\ \E i \in OracleMachines :
       /\ Held(i) = 0
       /\ Last.before.load[Last.proc] >= Last.before.load[i] + 99997

(* ===================================================================== *)
(* Tables of the front-end between calls                                  *)
(* ===================================================================== *)
(* the machines the edges incident to w were assigned to, and the last of  *)
(* those edges                                                             *)
AssignedTo(w) == {decided[k].proc : k \in {j \in DOMAIN decided : Touches(j, w)}}
LastIncident(w) ==
  CHOOSE k \in DOMAIN decided :
    Touches(k, w) /\ \A j \in DOMAIN decided : Touches(j, w) => j <= k

C31_VectorState ==
  (AllIdle /\ ~aborted) =>
    /\ \A k \in DOMAIN decided :
         {decided[k].source, decided[k].target} \subseteq DOMAIN dht
    /\ \A w \in DOMAIN dht :
         /\ Incidences(w) > 0
         /\ dht[w] = IF userecent THEN {decided[LastIncident(w)].proc}
                     ELSE AssignedTo(w)

C31_VectorStep ==
  ~userecent => \A w \in DOMAIN dht : w \in DOMAIN dht' /\ dht[w] \subseteq dht'[w]

(* C31: between the add_edge calls of a single loader thread, the replica  *)
(* vector of every vertex w is, with userecent off, exactly the set of     *)
(* machines that the edges incident to w were assigned to, and no step     *)
(* ever removes a bit; with userecent on it is the singleton of the        *)
(* machine of the last decided edge incident to w.                         *)
C31_ReplicaVectorExact == [](C31_VectorState) /\ [][C31_VectorStep]_vars

(* with userecent off a vertex has replicas on two machines after two of   *)
(* its edges went to different machines                                    *)
C31_Witness ==
  /\ AllIdle
  /\ ~userecent
  /\ Len(decided) = 2
  /\ decided[1].proc # decided[2].proc
  /\ \E w \in DOMAIN dht :
       /\ Touches(1, w) /\ Touches(2, w)
       /\ dht[w] = {decided[1].proc, decided[2].proc}

(* C32: in the hdrf front-end with one loader thread, between add_edge     *)
(* calls (self-loops included) the true-degree counters add up to twice    *)
(* the sum of the per-machine loads, which is twice the number of edges    *)
(* decided.                                                                *)
C32_DegreeSum ==
  (variant = "hdrf" /\ AllIdle /\ ~aborted) =>
    /\ SumOver(degree_dht, DOMAIN degree_dht) = 2 * SumLoad(proc_num_edges)
    /\ SumLoad(proc_num_edges) = Len(decided)

(* a self-loop and an edge between two vertices have been decided *)
C32_Witness ==
  /\ variant = "hdrf"
  /\ AllIdle
  /\ Len(decided) = 2
  /\ \E k \in DOMAIN decided : decided[k].source = decided[k].target
  /\ \E k \in DOMAIN decided : decided[k].source # decided[k].target
  /\ SumOver(degree_dht, DOMAIN degree_dht) = 4

(* ----------------------- frame of a decision -------------------------- *)
(* the endpoints of the add_edge call the step belongs to *)
CallEndpoints(t) ==
  IF th[t].pc = "idle" THEN {th'[t].source, th'[t].target}
  ELSE {th[t].source, th[t].target}

(* a table keeps the entry of every key outside keep as it is *)
KeepsOthers(tbl, tblnext, keep) ==
  \A w \in DOMAIN tbl \ keep : w \in DOMAIN tblnext /\ tblnext[w] = tbl[w]

C33_FrameStep ==
  /\ \A t \in Threads :
       th'[t] # th[t] =>
         /\ KeepsOthers(dht, dht', CallEndpoints(t))
         /\ KeepsOthers(degree_dht, degree_dht', CallEndpoints(t))
         /\ DOMAIN dht' \subseteq DOMAIN dht \cup CallEndpoints(t)
         /\ DOMAIN degree_dht' \subseteq DOMAIN degree_dht \cup CallEndpoints(t)
  /\ Cardinality({i \in Procs : proc_num_edges'[i] # proc_num_edges[i]}) <= 1
  /\ \A source, target \in Vertices :
       edge_to_proc_random(source, target, numprocs)'
         = edge_to_proc_random(source, target, numprocs)

C33_LoadState ==
  (AllIdle /\ ~aborted) =>
    \A i \in Procs :
      proc_num_edges[i] = Cardinality({k \in DOMAIN decided : decided[k].proc = i})

C34_StashBounded ==
  /\ \A k \in DOMAIN mixed : <<"overfull", k>> \notin cmap.trace
  /\ Len(cmap.stash) <= MaxStash + 1

(* the numbers noted in the trace under a name *)
Noted(what) == {n \in 0..(MaxKicks + MaxOps + 1) : <<what, n>> \in cmap.trace}

(* C35: every insertion of a new key by operator[] terminates.  A          *)
(* placement walk makes at most MaxKicks displacement attempts (100 in the *)
(* source) and puts the entry in hand into the stash only after all of     *)
(* them failed; the resizes that insertions start inside a resize are      *)
(* nested no deeper than there are keys; and the call returns with the key *)
(* present.                                                                *)
C35_InsertTerminates ==
  /\ \A n \in Noted("attempts") : n <= MaxKicks
  /\ \A n \in Noted("gaveup") : n = MaxKicks
  /\ \A n \in Noted("depth") : n <= Cardinality(DOMAIN mixed)
  /\ cmhist.op = "index" =>
       Lookup(mixed, cmap, cmhist.key) # Absent /\ cmap.lvl = 0

(* an insertion exhausted its walk and stashed an entry, and an insertion  *)
(* made during a resize started a second resize                            *)
C35_Witness ==
  /\ cmhist.op = "index"
  /\ MaxKicks \in Noted("gaveup")
  /\ 2 \in Noted("depth")
  /\ Lookup(mixed, cmap, cmhist.key) # Absent

(* ---- the public operations of cuckoo_map, reserve included ---- *)
(* the capacities a caller asks reserve for *)
ReserveLens == 1..(InitLen + 1)

(* m.insert(std::make_pair(k, val)) *)
CmInsert(k, row, val) ==
  /\ CmCanStep
  /\ LET mx == Hashed(k, row)
         r == insert(mx, cmap, <<k, val>>)
     IN /\ mixed' = mx
        /\ cmap' = r.m
        /\ cmhist' = Record("insert", k, mx, [key |-> k, iter |-> r.iter],
                            IF k \in DOMAIN cmhist.written THEN cmhist.written
                            ELSE cmhist.written @@ (k :> val), Absent)
  /\ UNCHANGED <<parallel, config, ingress, ncalls, cluster>>

(* m.reserve(newlen).  Nothing in reserve compares newlen with datalen:    *)
(* below datalen, realloc cuts the array and the fill runs from data_end() *)
(* up to data + newlen, which is below it: undefined behaviour, which      *)
(* either writes past the array until the process dies or writes nothing   *)
CmReserve(newlen) ==
  /\ CmCanStep
  /\ IF newlen >= datalen(cmap)
     THEN /\ cmap' = reserve(mixed, cmap, newlen)
          /\ cmhist' = Record("reserve", IllegalKey, mixed, NoRef, cmhist.written, Absent)
     ELSE \/ /\ cmap' = cmap
             /\ cmhist' = Crashed
          \/ /\ cmap' = reserve_below(mixed, cmap, newlen)
             /\ cmhist' = Record("reserve", IllegalKey, mixed, NoRef, cmhist.written, Absent)
  /\ UNCHANGED <<parallel, config, ingress, ncalls, cluster, mixed>>

NextStruct ==
  \/ \E k \in UsableKeys, row \in HashRows : CmIndex(k, row)
  \/ \E k \in UsableKeys, row \in HashRows, val \in MapValues : CmInsert(k, row, val)
  \/ \E k \in DOMAIN mixed : CmErase(k)
  \/ CmClear
  \/ \E newlen \in ReserveLens : CmReserve(newlen)
SpecStruct == InitMap /\ [][NextStruct]_vars

(* the slots holding a legal key, and the places where key k is stored *)
LegalSlots == {n \in 1..datalen(cmap) : cmap.data[n][1] # IllegalKey}
SlotsOf(k) == {n \in 1..datalen(cmap) : cmap.data[n][1] = k}
StashOf(k) == {n \in 1..Len(cmap.stash) : cmap.stash[n][1] = k}
(* the keys inserted and not erased *)
Live == DOMAIN cmhist.written

(* C36: after every completed public operation (operator[], insert, erase, *)
(* clear, reserve) size() is the number of slots holding a legal key plus  *)
(* the size of the stash, no key is stored in more than one place, every   *)
(* key stored in a slot is in one of its CuckooK candidate slots for the   *)
(* current capacity, and find and count report present exactly the keys    *)
(* inserted and not erased.                                                *)
C36_Structure ==
  cmhist.op # "crashed" =>
    /\ size(cmap) = Cardinality(LegalSlots) + Len(cmap.stash)
    /\ \A k \in DOMAIN mixed :
         /\ Cardinality(SlotsOf(k)) + Cardinality(StashOf(k)) <= 1
         /\ \A n \in SlotsOf(k) :
              \E j \in Seeds : compute_hash(mixed, cmap, k, j) = n - 1
         /\ count(mixed, cmap, k) <=> k \in Live
         /\ find(mixed, cmap, k) # end(cmap) <=> k \in Live

(* the same with the calls of reserve that ask for fewer slots than the    *)
(* table has left out                                                      *)
C36_StructureGrowing ==
  <<"shrunk", IllegalKey>> \notin cmap.trace => C36_Structure

(* C40: the reference operator[] returns for a key k that was absent is    *)
(* the entry that holds k when the call returns: the one find(k) yields,   *)
(* in the stash exactly when k is in the stash, also when k was bumped out *)
(* of its slot again during the walk; it is never the entry of another     *)
(* key.  And operator[] on a key that is present inserts and moves         *)
(* nothing, so that after the lookups dht[source]; dht[target] of add_edge *)
(* the references dht[source], dht[target] handed to the oracle are        *)
(* obtained with the table unchanged in between.                           *)
C40_RefState ==
  (cmhist.op = "index" /\ cmhist.before[cmhist.key] = Absent) =>
    LET k == cmhist.key
        it == cmhist.ref.iter
    IN /\ ValidIter(cmap, it)
       /\ Deref(cmap, it) = <<k, 0>>
       /\ it = find(mixed, cmap, k)
       /\ it.in_stash <=> StashOf(k) # {}
       /\ \A j \in DOMAIN mixed \ {k} :
            find(mixed, cmap, j) # end(cmap) => find(mixed, cmap, j) # it
C40_LookupStep ==
  (cmhist'.op = "index" /\ cmhist'.nops = cmhist.nops + 1
     /\ cmhist'.before[cmhist'.key] # Absent) =>
    /\ [cmap' EXCEPT !.trace = {}] = [cmap EXCEPT !.trace = {}]
    /\ cmhist'.ref.iter = find(mixed, cmap, cmhist'.key)
    /\ (cmhist.op = "index" /\ cmhist.key # cmhist'.key) =>
          /\ ValidIter(cmap', cmhist.ref.iter)
          /\ Deref(cmap', cmhist.ref.iter)[1] = cmhist.key
C40_ReferenceValid == [](C40_RefState) /\ [][C40_LookupStep]_vars

(* m[k] of an absent key k whose entry was bumped out of its slot again    *)
(* during the walk and ended in the stash, where the reference points      *)
C40_Witness ==
  /\ cmhist.op = "index"
  /\ cmhist.before[cmhist.key] = Absent
  /\ <<"bounced", cmhist.key>> \in cmap.trace
  /\ cmhist.ref.iter.in_stash
  /\ Deref(cmap, cmhist.ref.iter)[1] = cmhist.key
  /\ cmhist.size_before = 2

(* ------------------------- inplace_lf_queue2 --------------------------- *)
(* no front-end, cluster or cuckoo_map is in use *)
NoFrontEnd ==
  /\ numprocs = 1
  /\ usehash = FALSE
  /\ userecent = FALSE
  /\ hseed = 0
  /\ variant = "oblivious"
  /\ nthreads = 1
  /\ dht = <<>>
  /\ degree_dht = <<>>
  /\ proc_num_edges = [i \in 0..0 |-> 0]
  /\ obliv_lock = 0
  /\ th = [t \in 1..1 |-> IdleThread]
  /\ sent = <<>>
  /\ decided = <<>>
  /\ ncalls = 0
  /\ returned = 0
  /\ aborted = FALSE
  /\ cluster = <<>>
  /\ NoCuckoo

(* the elements are 1..MaxItems, each handed to enqueue once by a call of  *)
(* its own; the calls run concurrently with each other and with the one    *)
(* thread that calls dequeue_all and then follows the returned chain       *)
Items == 1..MaxItems
Sentinel == 0      \* the element the constructor allocates
Null == -1         \* NULL

(* inplace_lf_queue2(): sentinel(new T), head(sentinel), tail(sentinel),   *)
(* sentinel->next = NULL.  ord, chains and chain are history: the order of *)
(* the exchanges on tail, the chains followed to their end, the elements   *)
(* met so far on the chain being followed.                                 *)
InitQueue ==
  /\ NoFrontEnd
  /\ sumap = <<>>
  /\ tgroup = <<>>
  /\ lfq = [next |-> [c \in {Sentinel} \cup Items |->
                        IF c = Sentinel THEN Null ELSE c],
            head |-> Sentinel, tail |-> Sentinel, numel |-> 0,
            epc |-> [c \in Items |-> "idle"], prev |-> [c \in Items |-> Null],
            dpc |-> "idle", ret_head |-> Null, dprev |-> Null, cur |-> Null,
            ord |-> <<>>, chains |-> <<>>, chain |-> <<>>, empties |-> 0]

QStep(q) == lfq' = q /\ UNCHANGED <<config, ingress, ncalls, cluster, cuckoo, sumap, tgroup>>

(* enqueue(c): c->next = NULL *)
EnqClear(c) ==
  /\ lfq.epc[c] = "idle"
  /\ QStep([lfq EXCEPT !.next[c] = Null, !.epc[c] = "swap"])

(* atomic_exchange(a, b) of atomic_ops.hpp: the two values are swapped in  *)
(* one atomic step, ordered with the stores before and after it; yields    *)
(* the new values of a and b                                               *)
atomic_exchange(a, b) == <<b, a>>

(* T* prev = c; atomic_exchange(tail, prev) *)
EnqSwap(c) ==
  /\ lfq.epc[c] = "swap"
  /\ QStep([lfq EXCEPT !.prev[c] = atomic_exchange(lfq.tail, c)[2],
                       !.tail = atomic_exchange(lfq.tail, c)[1],
                       !.epc[c] = "link", !.ord = Append(@, c)])

(* prev->next = c *)
EnqLink(c) ==
  /\ lfq.epc[c] = "link"
  /\ QStep([lfq EXCEPT !.next[lfq.prev[c]] = c, !.epc[c] = "count"])

(* numel.inc() *)
EnqCount(c) ==
  /\ lfq.epc[c] = "count"
  /\ QStep([lfq EXCEPT !.numel = @ + 1, !.epc[c] = "done"])

(* dequeue_all(): T* ret_head = get_next(head); if (ret_head == NULL)      *)
(* return NULL                                                             *)
DeqRead ==
  /\ lfq.dpc = "idle"
  /\ IF lfq.next[lfq.head] = Null
     THEN QStep([lfq EXCEPT !.empties = 1])
     ELSE QStep([lfq EXCEPT !.ret_head = lfq.next[lfq.head], !.dpc = "clear"])

(* mutant: enqueue(sentinel) does not clear the sentinel's next pointer *)
DeqClearSkipped == lfq.dpc = "clear" /\ QStep([lfq EXCEPT !.dpc = "swap"])

(* enqueue(sentinel): sentinel->next = NULL *)
DeqClear ==
  /\ lfq.dpc = "clear"
  /\ QStep([lfq EXCEPT !.next[Sentinel] = Null, !.dpc = "swap"])

(* enqueue(sentinel): atomic_exchange(tail, prev) *)
DeqSwap ==
  /\ lfq.dpc = "swap"
  /\ QStep([lfq EXCEPT !.dprev = atomic_exchange(lfq.tail, Sentinel)[2],
                       !.tail = atomic_exchange(lfq.tail, Sentinel)[1],
                       !.dpc = "link", !.ord = Append(@, Sentinel)])

(* enqueue(sentinel): prev->next = sentinel *)
DeqLink ==
  /\ lfq.dpc = "link"
  /\ QStep([lfq EXCEPT !.next[lfq.dprev] = Sentinel, !.dpc = "count"])

(* enqueue(sentinel): numel.inc(); then numel = 0; return ret_head *)
DeqReturn ==
  /\ lfq.dpc = "count"
  /\ QStep([lfq EXCEPT !.numel = 0, !.dpc = "follow", !.cur = lfq.ret_head])

(* the caller of dequeue_all follows the chain: the element is taken and   *)
(* get_next is read again until it is not NULL                             *)
DeqFollow ==
  /\ lfq.dpc = "follow"
  /\ lfq.cur # Sentinel
  /\ lfq.next[lfq.cur] # Null
  /\ QStep([lfq EXCEPT !.chain = Append(@, lfq.cur), !.cur = lfq.next[lfq.cur]])

(* end_of_dequeue_list(ptr): the chain is at its end *)
DeqEnd ==
  /\ lfq.dpc = "follow"
  /\ lfq.cur = Sentinel
  /\ QStep([lfq EXCEPT !.chains = Append(@, lfq.chain), !.chain = <<>>,
                       !.dpc = "idle", !.cur = Null, !.ret_head = Null])

NextQueue ==
  \/ \E c \in Items : EnqClear(c)
  \/ \E c \in Items : EnqSwap(c)
  \/ \E c \in Items : EnqLink(c)
  \/ \E c \in Items : EnqCount(c)
  \/ DeqRead
  \/ DeqClear
  \/ DeqSwap
  \/ DeqLink
  \/ DeqReturn
  \/ DeqFollow
  \/ DeqEnd
SpecQueue == InitQueue /\ [][NextQueue]_vars

RECURSIVE Flat(_)
Flat(ss) == IF ss = <<>> THEN <<>> ELSE Head(ss) \o Flat(Tail(ss))
(* the elements delivered so far, in the order of delivery *)
Delivered == Flat(lfq.chains) \o lfq.chain
(* the order of the exchanges on tail, the sentinel's left out *)
Exchanged == SelectSeq(lfq.ord, LAMBDA c : c # Sentinel)
(* the exchanges on tail up to the n-th exchange of the sentinel *)
RECURSIVE UpToSentinel(_, _)
UpToSentinel(ord, n) ==
  IF n = 0 \/ ord = <<>> THEN <<>>
  ELSE IF Head(ord) = Sentinel
       THEN IF n = 1 THEN <<>> ELSE UpToSentinel(Tail(ord), n - 1)
       ELSE <<Head(ord)>> \o UpToSentinel(Tail(ord), n)
Quiet == \A c \in Items : lfq.epc[c] = "done"

(* C37: with concurrent enqueue calls and one thread calling dequeue_all   *)
(* and following the chains, no element is delivered twice; the elements   *)
(* delivered are, in this order, the first elements that were exchanged    *)
(* into tail; a chain followed to its end holds exactly the elements       *)
(* exchanged into tail before the sentinel was; the dequeuer is never left *)
(* at an element whose next pointer stays NULL; and once all calls of      *)
(* enqueue have returned and dequeue_all finds the queue empty, every      *)
(* element has been delivered.                                             *)
C37_ExactlyOnce ==
  /\ \A i, j \in 1..Len(Delivered) : Delivered[i] = Delivered[j] => i = j
  /\ Len(Delivered) <= Len(Exchanged)
  /\ Delivered = SubSeq(Exchanged, 1, Len(Delivered))
  /\ Flat(lfq.chains) = UpToSentinel(lfq.ord, Len(lfq.chains))
  /\ \A n \in 1..Len(lfq.chains) : lfq.chains[n] # <<>>
  /\ (Quiet /\ lfq.dpc = "follow" /\ lfq.cur # Sentinel) => lfq.next[lfq.cur] # Null
  /\ (Quiet /\ lfq.dpc = "idle" /\ lfq.next[lfq.head] = Null) =>
        {Delivered[i] : i \in 1..Len(Delivered)} = Items

(* two chains were followed to the sentinel, the first with two elements   *)
(* of which the later one was exchanged into tail after dequeue_all had    *)
(* read the head, the second with an element enqueued behind the sentinel  *)
C37_Witness ==
  /\ Len(lfq.chains) = 2
  /\ Len(lfq.chains[1]) = 2
  /\ Quiet
  /\ lfq.dpc = "idle"
  /\ lfq.empties = 1
  /\ {Delivered[i] : i \in 1..Len(Delivered)} = Items

(* --------------------- synchronized_unordered_map ---------------------- *)
(* a map of NumBlocks blocks; each caller makes one call of                *)
(* insert_with_failure_detect(key, val) with a value of its own            *)
NumBlocks == 2
SuKeys == 0..NumBlocks
Callers == 1..MaxCallers
Unlocked == 0      \* the rwlock of a block is held by nobody
NoEntry == [found |-> FALSE, key |-> 0]

(* synchronized_unordered_map(numblocks): data(numblocks), lock(numblocks) *)
InitSync ==
  /\ NoFrontEnd
  /\ lfq = <<>>
  /\ tgroup = <<>>
  /\ sumap = [nblocks |-> NumBlocks,
              data |-> [b \in 0..(NumBlocks - 1) |-> <<>>],
              lock |-> [b \in 0..(NumBlocks - 1) |-> Unlocked],
              pc |-> [c \in Callers |-> "idle"],
              key |-> [c \in Callers |-> 0],
              ret |-> [c \in Callers |-> [ok |-> FALSE, ptr |-> NoEntry]]]

SStep(m) == sumap' = m /\ UNCHANGED <<config, ingress, ncalls, cluster, cuckoo, lfq, tgroup>>

(* size_t b = key % nblocks *)
BlockOf(key) == key % sumap.nblocks
(* data[b].find(key): the entry of the key, or end() *)
SuFind(b, key) ==
  IF key \in DOMAIN sumap.data[b] THEN [found |-> TRUE, key |-> key] ELSE NoEntry

(* insert_with_failure_detect(key, val): b = key % nblocks;                *)
(* lock[b].writelock(), which waits until no caller holds the lock         *)
SuLock(c, key) ==
  /\ sumap.pc[c] = "idle"
  /\ sumap.lock[key % sumap.nblocks] = Unlocked
  /\ SStep([sumap EXCEPT !.key[c] = key, !.pc[c] = "locked",
                         !.lock[key % sumap.nblocks] = c])

(* mutant: the value is written whether or not the key is present *)
SuInsertAlways(c) ==
  LET key == sumap.key[c]
      b == BlockOf(key)
  IN /\ sumap.pc[c] = "locked"
     /\ SStep([sumap EXCEPT !.data[b] = (key :> c) @@ @,
                            !.ret[c] = [ok |-> TRUE, ptr |-> [found |-> TRUE, key |-> key]],
                            !.pc[c] = "unlock"])

(* iter = data[b].find(key); if it is end(): data[b][key] = val and ret =  *)
(* (true, &(data[b].find(key)->second)), else ret = (false,                *)
(* &(iter->second)).  The value of caller c is c.                          *)
SuInsert(c) ==
  LET key == sumap.key[c]
      b == BlockOf(key)
  IN /\ sumap.pc[c] = "locked"
     /\ IF ~SuFind(b, key).found
        THEN SStep([sumap EXCEPT !.data[b] = (key :> c) @@ @,
                                 !.ret[c] = [ok |-> TRUE, ptr |-> [found |-> TRUE, key |-> key]],
                                 !.pc[c] = "unlock"])
        ELSE SStep([sumap EXCEPT !.ret[c] = [ok |-> FALSE, ptr |-> SuFind(b, key)],
                                 !.pc[c] = "unlock"])

(* lock[b].wrunlock(); return ret *)
SuUnlock(c) ==
  /\ sumap.pc[c] = "unlock"
  /\ SStep([sumap EXCEPT !.lock[BlockOf(sumap.key[c])] = Unlocked, !.pc[c] = "done"])

NextSync ==
  \/ \E c \in Callers, key \in SuKeys : SuLock(c, key)
  \/ \E c \in Callers : SuInsert(c)
  \/ \E c \in Callers : SuUnlock(c)
SpecSync == InitSync /\ [][NextSync]_vars

(* the callers whose call on the key has made its decision, and those of   *)
(* them that were told true                                                *)
Decided(key) == {c \in Callers : sumap.key[c] = key /\ sumap.pc[c] \in {"unlock", "done"}}
Winners(key) == {c \in Decided(key) : sumap.ret[c].ok}

(* C38: insert_with_failure_detect inserts only when the key is absent.    *)
(* Among the concurrent calls for one key that was absent exactly one is   *)
(* told true, and its value is the one stored; every other call is told    *)
(* false with a pointer to the entry of that key, and the stored value     *)
(* stays as it is; and a step of a call changes neither the entries nor    *)
(* the lock of a block other than its key's.                               *)
C38_State ==
  \A key \in SuKeys :
    LET b == BlockOf(key)
    IN /\ Cardinality(Winners(key)) <= 1
       /\ Decided(key) # {} <=> key \in DOMAIN sumap.data[b]
       /\ Decided(key) # {} => Cardinality(Winners(key)) = 1
       /\ \A c \in Winners(key) :
            sumap.data[b][key] = c /\ sumap.ret[c].ptr = [found |-> TRUE, key |-> key]
       /\ \A c \in Decided(key) \ Winners(key) :
            sumap.ret[c].ptr = [found |-> TRUE, key |-> key] /\ sumap.data[b][key] # c
C38_Step ==
  \A c \in Callers :
    sumap'.pc[c] # sumap.pc[c] =>
      \A b \in 0..(NumBlocks - 1) \ {sumap'.key[c] % NumBlocks} :
        sumap'.data[b] = sumap.data[b] /\ sumap'.lock[b] = sumap.lock[b]
C38_InsertOnce == [](C38_State) /\ [][C38_Step]_vars

(* three calls made their decision, two of them on the same key; a call on *)
(* another block decided while the lock of the first block was held        *)
C38_Witness ==
  /\ \E key \in SuKeys : Cardinality(Decided(key)) = 2 /\ Cardinality(Winners(key)) = 1
  /\ \E c, d \in Callers :
       /\ sumap.pc[c] = "unlock" /\ sumap.pc[d] = "unlock"
       /\ BlockOf(sumap.key[c]) # BlockOf(sumap.key[d])

(* ----------------------------- thread_group ---------------------------- *)
(* one owner thread calls launch and join; the launched threads run        *)
(* thread_group::invoke.  A thread is named by its place in thr (its       *)
(* pthread_t).                                                             *)
MutFree == 0       \* nobody holds group->mut
Owner == -1        \* the owner thread, as holder of the mutex
NoThrow == 0       \* const char* retval = NULL
Thrown == 1        \* the const char* a thread's function threw
Launched == 1..Len(tgroup.thr)

(* thread_group: m_thread_counter(0), threads_running(0).  last, nthrown   *)
(* are history: how the last call of join ended, how many calls threw.     *)
InitGroup ==
  /\ NoFrontEnd
  /\ lfq = <<>>
  /\ sumap = <<>>
  /\ tgroup = [m_thread_counter |-> 0, threads_running |-> 0, joinqueue |-> <<>>,
               mut |-> MutFree, signalled |-> FALSE, thr |-> <<>>,
               opc |-> "idle", joining |-> [tid |-> 0, retval |-> NoThrow],
               last |-> "none", nthrown |-> 0]

GStep(g) == tgroup' = g /\ UNCHANGED <<config, ingress, ncalls, cluster, cuckoo, lfq, sumap>>

(* launch(spawn_function): thread local_thread(m_thread_counter++) *)
TgLaunchCount ==
  /\ tgroup.opc = "idle"
  /\ Len(tgroup.thr) < MaxLaunch
  /\ GStep([tgroup EXCEPT !.m_thread_counter = @ + 1, !.opc = "launching",
                          !.last = "none"])

(* mut.lock(); threads_running++; mut.unlock(); local_thread.launch(...) *)
TgLaunchStart ==
  /\ tgroup.opc = "launching"
  /\ tgroup.mut = MutFree
  /\ GStep([tgroup EXCEPT !.threads_running = @ + 1, !.opc = "idle",
                          !.thr = Append(@, [pc |-> "running", retval |-> NoThrow])])

(* invoke: spawn_function() returns, or throws a const char* which is      *)
(* caught into retval                                                      *)
TgRun(t, r) ==
  /\ tgroup.thr[t].pc = "running"
  /\ GStep([tgroup EXCEPT !.thr[t] = [pc |-> "finished", retval |-> r]])

(* invoke: group->mut.lock() *)
TgLock(t) ==
  /\ tgroup.thr[t].pc = "finished"
  /\ tgroup.mut = MutFree
  /\ GStep([tgroup EXCEPT !.mut = t, !.thr[t].pc = "locked"])

(* invoke: joinqueue.push((pthread_self(), retval)); cond.signal();        *)
(* mut.unlock(); the thread ends                                           *)
TgPush(t) ==
  /\ tgroup.thr[t].pc = "locked"
  /\ GStep([tgroup EXCEPT !.joinqueue = Append(@, [tid |-> t, retval |-> tgroup.thr[t].retval]),
                          !.signalled = @ \/ tgroup.opc = "jwait",
                          !.mut = MutFree, !.thr[t].pc = "exited"])

(* the owner calls join() *)
JoinCall ==
  /\ tgroup.opc = "idle"
  /\ GStep([tgroup EXCEPT !.opc = "jlock", !.last = "none"])

(* join: mut.lock(), at the start and at the end of the loop body *)
JoinLock ==
  /\ tgroup.opc = "jlock"
  /\ tgroup.mut = MutFree
  /\ GStep([tgroup EXCEPT !.mut = Owner, !.opc = "jtest"])

(* mutant: join returns when the join queue is empty instead of waiting *)
JoinTestEarly ==
  /\ tgroup.opc = "jtest"
  /\ IF tgroup.threads_running = 0 \/ tgroup.joinqueue = <<>>
     THEN GStep([tgroup EXCEPT !.mut = MutFree, !.opc = "idle", !.last = "returned"])
     ELSE GStep([tgroup EXCEPT !.joining = Head(tgroup.joinqueue),
                               !.joinqueue = Tail(@),
                               !.threads_running = @ - 1,
                               !.m_thread_counter =
                                  IF tgroup.threads_running = 1 THEN 0 ELSE @,
                               !.mut = MutFree, !.opc = "jreap"])

(* join, holding the mutex: while (threads_running > 0): while             *)
(* (joinqueue.empty()) cond.wait(mut), which releases the mutex and waits  *)
(* for a signal; else front(), pop(), threads_running--, the counter is    *)
(* reset when it reached 0, mut.unlock().  After the loop: mut.unlock()    *)
(* and join returns.                                                       *)
JoinTest ==
  /\ tgroup.opc = "jtest"
  /\ IF tgroup.threads_running = 0
     THEN GStep([tgroup EXCEPT !.mut = MutFree, !.opc = "idle", !.last = "returned"])
     ELSE IF tgroup.joinqueue = <<>>
     THEN GStep([tgroup EXCEPT !.mut = MutFree, !.opc = "jwait", !.signalled = FALSE])
     ELSE GStep([tgroup EXCEPT !.joining = Head(tgroup.joinqueue),
                               !.joinqueue = Tail(@),
                               !.threads_running = @ - 1,
                               !.m_thread_counter =
                                  IF tgroup.threads_running = 1 THEN 0 ELSE @,
                               !.mut = MutFree, !.opc = "jreap"])

(* cond.wait(mut) returns after a signal, with the mutex taken again; a    *)
(* wake-up without a signal finds the queue empty and waits again          *)
JoinWake ==
  /\ tgroup.opc = "jwait"
  /\ tgroup.signalled
  /\ tgroup.mut = MutFree
  /\ GStep([tgroup EXCEPT !.mut = Owner, !.opc = "jtest", !.signalled = FALSE])

(* pthread_join(joining_thread.first, ...) returns once that thread has    *)
(* ended; if (joining_thread.second) throw(joining_thread.second)          *)
JoinReap ==
  /\ tgroup.opc = "jreap"
  /\ tgroup.thr[tgroup.joining.tid].pc = "exited"
  /\ IF tgroup.joining.retval # NoThrow
     THEN GStep([tgroup EXCEPT !.thr[tgroup.joining.tid].pc = "reaped",
                               !.opc = "idle", !.last = "thrown",
                               !.nthrown = @ + 1])
     ELSE GStep([tgroup EXCEPT !.thr[tgroup.joining.tid].pc = "reaped",
                               !.opc = "jlock"])

NextGroup ==
  \/ TgLaunchCount
  \/ TgLaunchStart
  \/ \E t \in Launched, r \in {NoThrow, Thrown} : TgRun(t, r)
  \/ \E t \in Launched : TgLock(t)
  \/ \E t \in Launched : TgPush(t)
  \/ JoinCall
  \/ JoinLock
  \/ JoinTest
  \/ JoinWake
  \/ JoinReap
SpecGroup == InitGroup /\ [][NextGroup]_vars

(* every launched thread's function terminates and every thread that can   *)
(* run does; a call of join that can go on does                            *)
ThreadsRun ==
  \A t \in 1..MaxLaunch :
     /\ WF_vars(t \in Launched /\ \E r \in {NoThrow, Thrown} : TgRun(t, r))
     /\ WF_vars(t \in Launched /\ TgLock(t))
     /\ WF_vars(t \in Launched /\ TgPush(t))
JoinRuns ==
  WF_vars(JoinLock) /\ WF_vars(JoinTest) /\ WF_vars(JoinWake) /\ WF_vars(JoinReap)
SpecGroupFair == SpecGroup /\ ThreadsRun /\ JoinRuns

NotReaped == {t \in Launched : tgroup.thr[t].pc # "reaped"}
InJoin == tgroup.opc \in {"jlock", "jtest", "jwait", "jreap"}

(* C39: join() returns normally only when every launched thread has ended  *)
(* and was reaped, with threads_running = 0, an empty join queue and the   *)
(* thread counter back at 0.  When a thread's function threw a const char* *)
(* join() throws it after reaping that thread, not holding the mutex, with *)
(* threads_running the number of threads not yet reaped.  And every call   *)
(* of join() ends, by return or by throw, when the functions of the        *)
(* launched threads terminate.                                             *)
C39_State ==
  /\ tgroup.last = "returned" =>
       /\ tgroup.opc = "idle"
       /\ NotReaped = {}
       /\ tgroup.threads_running = 0
       /\ tgroup.joinqueue = <<>>
       /\ tgroup.m_thread_counter = 0
       /\ tgroup.mut = MutFree
  /\ tgroup.last = "thrown" =>
       /\ tgroup.opc = "idle"
       /\ tgroup.joining.retval = Thrown
       /\ tgroup.thr[tgroup.joining.tid] = [pc |-> "reaped", retval |-> Thrown]
       /\ tgroup.mut # Owner
       /\ tgroup.threads_running = Cardinality(NotReaped)
       /\ tgroup.threads_running = 0 => tgroup.m_thread_counter = 0
C39_Join == [](C39_State) /\ (InJoin ~> tgroup.opc = "idle")

(* a call of join threw while other threads were not reaped, and a further *)
(* call reaped them and returned                                           *)
C39_Witness ==
  /\ tgroup.last = "returned"
  /\ tgroup.nthrown = 1
  /\ Len(tgroup.thr) = MaxLaunch
  /\ \E t \in Launched : tgroup.thr[t].retval = NoThrow

====
